---- MODULE Spec2Model ----
(***************************************************************************)
(* Verification model of the YuniKorn scheduler core (yunikorn-core,       *)
(* package scheduler):                                                     *)
(*   - SchedulingAllocationAsk: the pending-repeat counter of an ask       *)
(*   - SchedulingQueue: the scheduling mirror of the queue tree            *)
(*   - PartitionManager / ClusterSchedulingContext: queue cleanup and      *)
(*     partition teardown                                                  *)
(*   - crossQueuePreemptionAllocate: DRF surgical preemption               *)
(*   - placement.fixedRule: the fixed placement rule                       *)
(*   - placement.providedRule with the fixed rule as its parent rule       *)
(*   - SortQueue, SortApplications, SortNodes                              *)
(*   - the configuration loader: validation of a snapshot                  *)
(*   - the locks of SchedulingQueue and of ClusterSchedulingContext        *)
(*   - the pending resource of the scheduling queues                       *)
(* and of the Kubernetes shim (yunikorn-k8shim, package cache):            *)
(*   - Task: the state machine of a task and its follow-up events          *)
(* Each part has its own specification over the shared variables; the      *)
(* variables of the other parts stay at their initial value.               *)
(***************************************************************************)
EXTENDS Integers, Sequences, FiniteSets, TLC

VARIABLES
    \* ---- SchedulingAllocationAsk (one ask object, shared by the callers)
    askCtor,            \* "none" before construction, else the constructor used
    PendingRepeatAsk,   \* SchedulingAllocationAsk.PendingRepeatAsk (int32)
    askLock,            \* SchedulingAllocationAsk.lock: 0 = free, else the holder
    callPc,             \* per caller: position inside AddPendingAskRepeat
    callDelta,          \* per caller: the delta argument
    callBefore,         \* per caller: PendingRepeatAsk when the lock was taken
    callRet,            \* per caller: the value about to be returned
    lastCall,           \* record of the last completed AddPendingAskRepeat call
    \* ---- queue tree of one partition: cache.QueueInfo and SchedulingQueue
    managed,            \* per queue path: cache QueueInfo managed flag
    status,             \* per queue path: cache QueueInfo state, "Absent" if never created
    cacheChildren,      \* per queue path: keys of the cache queue's children map
    childrenQueues,     \* per queue path: keys of SchedulingQueue.childrenQueues
    applications,       \* per queue path: ids in SchedulingQueue.applications
    panicked,           \* a nil pointer dereference crashed the process
    lastRemove,         \* record of a SchedulingQueue.RemoveQueue call just made
    lastClean,          \* what the cleanQueues pass just made tried and removed
    \* ---- ClusterSchedulingContext, its partitions and their managers
    partitions,         \* csc.partitions: partition name -> context, 0 = no entry
    needPreemption,     \* csc.needPreemption
    ctxName,            \* per context: PartitionSchedulingContext.Name, "" = not created
    mgrStop,            \* per context: stop of the PartitionManager psc.partitionManager points to
    runPc,              \* per context: position of the goroutine running Run()
    runStop,            \* per context: stop of the receiver copy Run() works on
    rootStatus,         \* per context: state of the partition's (configured) queues
    cacheApps,          \* per context: applications of the cache partition
    schedApps,          \* per context: applications of the scheduling partition
    nodes,              \* per context: nodes of the cache partition
    cacheRemoved,       \* per context: pi.Remove() was called
    removeLog,          \* per context: the steps remove() has made, in order
    stopRequested,      \* per context: teardown was requested
    lastRm,             \* record of a RemoveSchedulingPartitionsByRMId call just made
    lastReq,            \* record of an application request to the cluster context just made
    \* ---- cross-queue preemption: one call of crossQueuePreemptionAllocate
    candidate,          \* the ask: its queue name and resource, and whether the partition context is nil
    preemptQueues,      \* per queue of the preemption context: max, allocating, markedPreempted, preemptable
    preemptNodes,       \* per node: allocating, preempting and available resource
    nodeAllocations,    \* per allocation: its node, queue and resource
    preemptRun,         \* the locals of the call in progress
    preemptResult,      \* what the call returned
    preemptBefore,      \* the queues and nodes as they were when the call began
    \* ---- placement: one fixed rule and one application
    ruleConf,           \* configs.PlacementRule the rule is built from, and what the filter and the parent rule answer
    partitionQueues,    \* queues of the cache partition: their paths and which are leaves
    fixedRule,          \* the fixedRule object
    placement,          \* what placeApplication returned
    \* ---- placement: one provided rule, its parent being the fixed rule
    provided,           \* the providedRule object, the queue the application names and what the filter answers
    providedPlacement,  \* what the provided rule's placeApplication returned
    \* ---- sorters: one slice handed to SortQueue, SortApplications or SortNodes
    sortKind,           \* what the slice holds: "queues", "applications" or "nodes"
    sortInput,          \* the slice as the caller built it
    sortSlice,          \* the slice, sorted in place
    sortCall,           \* the sort call just made and its sortType
    \* ---- scheduler configuration
    publishedConfig,    \* the configuration in effect, << >> before the first load
    lastLoad,           \* the load just made: its snapshot, its error and the configuration before it
    \* ---- the locks of the scheduling queues and the goroutines working on the queues
    sqLock,             \* per queue path: SchedulingQueue.lock, its writer (0 = none) and its readers
    goroutine,          \* per goroutine: the operation it is in, the locks it holds and where it stands
    pendingResource,    \* per queue path: SchedulingQueue.pendingResource (one resource type)
    lastAccess,         \* the reads and writes of childrenQueues and applications the last step made
    \* ---- the lock of the cluster scheduling context and the goroutines calling the context
    cscLock,            \* ClusterSchedulingContext.lock: its writer (0 = none) and its readers
    cscCaller,          \* per goroutine: the method of the context it is in and the partition name it passed
    cscPartitions,      \* the keys of csc.partitions
    cscAccess,          \* the reads and writes of csc.partitions the last step made
    \* ---- headroom shortages: the map of one preemption attempt
    queueHeadroomShortages, \* the map initHeadroomShortages returned, as headroomShortageUpdate left it
    headroomCall,       \* the call just made: its arguments, the map before it and the value returned
    \* ---- pending resource of the scheduling queues
    queuePending,       \* per queue path: SchedulingQueue.pendingResource, a resource
    pendingCaller,      \* per goroutine: the pending-resource operation it is in and the locks it holds
    pendingCalls,       \* number of pending-resource operations called so far
    pendingDone,        \* the operation that just returned: its arguments and the updates it made
    \* ---- the task of the Kubernetes shim
    task,               \* the Task: the state of its state machine, allocationUuid, whether schedulerApi is set
    taskEvents,         \* the events of the task the dispatcher holds, oldest first
    taskRoutines,       \* the goroutines of postTaskAllocated and releaseAllocation
    lastHandle,         \* the call of Task.handle just made: its event, the states around it, the error returned
    \* ---- cross-queue preemption: the calls of one scheduling pass
    releasedBefore,     \* the allocations in the release lists of the calls made before this one
    preemptCalls        \* number of calls made before this one

askVars == <<askCtor, PendingRepeatAsk, askLock, callPc, callDelta, callBefore,
             callRet, lastCall>>

queueVars == <<managed, status, cacheChildren, childrenQueues, applications,
               panicked, lastRemove, lastClean>>

clusterVars == <<partitions, needPreemption, ctxName, mgrStop, runPc, runStop,
                 rootStatus, cacheApps, schedApps, nodes, cacheRemoved, removeLog,
                 stopRequested, lastRm, lastReq>>

preemptVars == <<candidate, preemptQueues, preemptNodes, nodeAllocations, preemptRun,
                 preemptResult, preemptBefore>>

placeVars == <<ruleConf, partitionQueues, fixedRule, placement>>

providedVars == <<provided, providedPlacement>>
sortVars == <<sortKind, sortInput, sortSlice, sortCall>>
configVars == <<publishedConfig, lastLoad>>
lockVars == <<sqLock, goroutine, pendingResource, lastAccess>>
cscLockVars == <<cscLock, cscCaller, cscPartitions, cscAccess>>
\* the parts added to the first five
headroomVars == <<queueHeadroomShortages, headroomCall>>
pendingVars == <<queuePending, pendingCaller, pendingCalls, pendingDone>>
\* the parts added last
taskVars == <<task, taskEvents, taskRoutines, lastHandle>>
againVars == <<releasedBefore, preemptCalls>>
moreVars == <<pendingVars, taskVars, againVars>>
extraVars == <<providedVars, sortVars, configVars, lockVars, cscLockVars, headroomVars,
               moreVars>>

vars == <<askVars, queueVars, clusterVars, preemptVars, placeVars, extraVars>>

\* what each part's actions leave alone
nonAskVars == <<queueVars, clusterVars, preemptVars, placeVars, extraVars>>
nonQueueVars == <<askVars, clusterVars, preemptVars, placeVars, extraVars>>
nonClusterVars == <<askVars, queueVars, preemptVars, placeVars, extraVars>>
nonPreemptVars == <<askVars, queueVars, clusterVars, placeVars, extraVars>>
nonPlaceVars == <<askVars, queueVars, clusterVars, preemptVars, extraVars>>
nonProvidedVars == <<askVars, queueVars, clusterVars, preemptVars, sortVars, configVars,
                     lockVars, cscLockVars, headroomVars, moreVars>>
nonSortVars == <<askVars, queueVars, clusterVars, preemptVars, placeVars, providedVars,
                 configVars, lockVars, cscLockVars, headroomVars, moreVars>>
nonConfigVars == <<askVars, queueVars, clusterVars, preemptVars, placeVars, providedVars,
                   sortVars, lockVars, cscLockVars, headroomVars, moreVars>>
nonHeadroomVars == <<askVars, queueVars, clusterVars, placeVars, providedVars, sortVars,
                     configVars, lockVars, cscLockVars, moreVars>>
nonLockVars == <<askVars, queueVars, clusterVars, preemptVars, placeVars, providedVars,
                 sortVars, configVars, cscLockVars, headroomVars, moreVars>>
nonPendingVars == <<askVars, queueVars, clusterVars, preemptVars, placeVars, providedVars,
                    sortVars, configVars, lockVars, cscLockVars, headroomVars, taskVars,
                    againVars>>
nonTaskVars == <<askVars, queueVars, clusterVars, preemptVars, placeVars, providedVars,
                 sortVars, configVars, lockVars, cscLockVars, headroomVars, pendingVars,
                 againVars>>
nonAgainVars == <<askVars, queueVars, clusterVars, placeVars, providedVars, sortVars,
                  configVars, lockVars, cscLockVars, headroomVars, pendingVars, taskVars>>
nonCscLockVars == <<askVars, queueVars, clusterVars, preemptVars, placeVars, providedVars,
                    sortVars, configVars, lockVars, headroomVars, moreVars>>

(***************************************************************************)
(* int32 arithmetic                                                        *)
(***************************************************************************)
MaxInt32 == 2147483647
MinInt32 == -2147483647 - 1

\* Go's int32 addition: two's complement, wraps silently on overflow.
\* Written so that no intermediate value leaves the int32 range.
Int32Add(a, b) ==
    IF a >= 0 /\ b >= 0 /\ b > MaxInt32 - a
        THEN (a + MinInt32) + (b + MinInt32)
    ELSE IF a < 0 /\ b < 0 /\ b < MinInt32 - a
        THEN (a - MinInt32) + (b - MinInt32)
    ELSE a + b

(***************************************************************************)
(* SchedulingAllocationAsk                                                 *)
(***************************************************************************)
\* number of goroutines calling AddPendingAskRepeat on the same ask
NumCallers == 2
\* the model explores PendingRepeatAsk within MaxPending of 0 and of MaxInt32
MaxPending == 2

Callers == 1..NumCallers
NoCall == [done |-> FALSE, delta |-> 0, before |-> 0, after |-> 0, ret |-> FALSE]

\* si.AllocationAsk.MaxAllocations is an int32 taken from the request as is
MaxAllocationsValues == {-1, 0, 1, 2}
\* delta arguments: small ones and the two ends of int32
DeltaValues == {-1, 0, 1, MaxInt32, MinInt32}

InBand(v) == (v >= -MaxPending /\ v <= MaxPending) \/ v >= MaxInt32 - MaxPending

InitAsk ==
    /\ askCtor = "none"
    /\ PendingRepeatAsk = 0
    /\ askLock = 0
    /\ callPc = [t \in Callers |-> "idle"]
    /\ callDelta = [t \in Callers |-> 0]
    /\ callBefore = [t \in Callers |-> 0]
    /\ callRet = [t \in Callers |-> FALSE]
    /\ lastCall = NoCall

\* PendingRepeatAsk: ask.MaxAllocations
NewSchedulingAllocationAsk(maxAllocations) ==
    /\ askCtor = "none"
    /\ askCtor' = "New"
    /\ PendingRepeatAsk' = maxAllocations
    /\ UNCHANGED <<askLock, callPc, callDelta, callBefore, callRet, lastCall>>
    /\ UNCHANGED nonAskVars

\* PendingRepeatAsk: 1
ConvertFromAllocation ==
    /\ askCtor = "none"
    /\ askCtor' = "Convert"
    /\ PendingRepeatAsk' = 1
    /\ UNCHANGED <<askLock, callPc, callDelta, callBefore, callRet, lastCall>>
    /\ UNCHANGED nonAskVars

\* m.lock.Lock() succeeds only while no other caller holds the mutex
AskLockAvailable(t) == askLock = 0

\* the condition of the if: m.PendingRepeatAsk + delta >= 0, in int32
AskGuardStrict(pending, delta) == Int32Add(pending, delta) > 0
AskGuard(pending, delta) == Int32Add(pending, delta) >= 0

\* m.lock.Lock(): entry of AddPendingAskRepeat(delta)
AddPendingAskRepeatLock(t, delta) ==
    /\ askCtor # "none"
    /\ callPc[t] = "idle"
    /\ AskLockAvailable(t)
    \* exploration bound: the value the call would store stays in the band
    /\ AskGuard(PendingRepeatAsk, delta) => InBand(Int32Add(PendingRepeatAsk, delta))
    /\ askLock' = t
    /\ callPc' = [callPc EXCEPT ![t] = "locked"]
    /\ callDelta' = [callDelta EXCEPT ![t] = delta]
    /\ callBefore' = [callBefore EXCEPT ![t] = PendingRepeatAsk]
    /\ UNCHANGED <<askCtor, PendingRepeatAsk, callRet, lastCall>>
    /\ UNCHANGED nonAskVars

\* if m.PendingRepeatAsk + delta >= 0 { ... } else { return false }
AddPendingAskRepeatCheck(t) ==
    /\ callPc[t] = "locked"
    /\ IF AskGuard(PendingRepeatAsk, callDelta[t])
          THEN /\ callPc' = [callPc EXCEPT ![t] = "add"]
               /\ callRet' = [callRet EXCEPT ![t] = TRUE]
          ELSE /\ callPc' = [callPc EXCEPT ![t] = "ret"]
               /\ callRet' = [callRet EXCEPT ![t] = FALSE]
    /\ UNCHANGED <<askCtor, PendingRepeatAsk, askLock, callDelta, callBefore, lastCall>>
    /\ UNCHANGED nonAskVars

\* m.PendingRepeatAsk += delta
AddPendingAskRepeatAdd(t) ==
    /\ callPc[t] = "add"
    /\ PendingRepeatAsk' = Int32Add(PendingRepeatAsk, callDelta[t])
    /\ callPc' = [callPc EXCEPT ![t] = "ret"]
    /\ UNCHANGED <<askCtor, askLock, callDelta, callBefore, callRet, lastCall>>
    /\ UNCHANGED nonAskVars

\* return; the deferred m.lock.Unlock() runs
AddPendingAskRepeatUnlock(t) ==
    /\ callPc[t] = "ret"
    /\ lastCall' = [done |-> TRUE, delta |-> callDelta[t], before |-> callBefore[t],
                    after |-> PendingRepeatAsk, ret |-> callRet[t]]
    /\ askLock' = IF askLock = t THEN 0 ELSE askLock
    /\ callPc' = [callPc EXCEPT ![t] = "idle"]
    /\ callDelta' = [callDelta EXCEPT ![t] = 0]
    /\ callBefore' = [callBefore EXCEPT ![t] = 0]
    /\ callRet' = [callRet EXCEPT ![t] = FALSE]
    /\ UNCHANGED <<askCtor, PendingRepeatAsk>>
    /\ UNCHANGED nonAskVars

NextAsk ==
    \/ \E m \in MaxAllocationsValues : NewSchedulingAllocationAsk(m)
    \/ ConvertFromAllocation
    \/ \E t \in Callers, d \in DeltaValues : AddPendingAskRepeatLock(t, d)
    \/ \E t \in Callers : AddPendingAskRepeatCheck(t)
    \/ \E t \in Callers : AddPendingAskRepeatAdd(t)
    \/ \E t \in Callers : AddPendingAskRepeatUnlock(t)

(***************************************************************************)
(* Queue tree: cache.QueueInfo (package cache) and its scheduling mirror   *)
(* SchedulingQueue. A queue path is the sequence of its names; the Name of *)
(* a SchedulingQueue is the full path, the keys of a children map are leaf *)
(* names (a path of length one).                                           *)
(***************************************************************************)
\* number of applications that can be submitted
MaxApps == 1

Root == <<"root">>
QueuePaths == {Root, <<"root", "a">>, <<"root", "b">>, <<"root", "a", "x">>}
AppIds == 1..MaxApps

Parent(q) == SubSeq(q, 1, Len(q) - 1)
\* sq.Name[strings.LastIndex(sq.Name, cache.DOT)+1:]
LeafName(q) == <<q[Len(q)]>>

\* the queue trees a configuration (plus placement) can set up: root and any
\* of the other queues whose parent is there too
QueueTrees ==
    {T \in SUBSET QueuePaths : Root \in T /\ \A q \in T \ {Root} : Parent(q) \in T}
\* managed: root always, a queue created by placement (unmanaged) has no
\* managed queue below it
ManagedFlags(T) ==
    {m \in [QueuePaths -> BOOLEAN] :
        /\ m[Root]
        /\ \A q \in QueuePaths \ T : ~m[q]
        /\ \A q \in T \ {Root} : m[q] => m[Parent(q)]}

\* NewSchedulingQueueInfo(root, nil): every child is registered in its
\* parent's childrenQueues under its leaf name and under the key it has in
\* the cache's children map
NewSchedulingQueueInfo(cc) ==
    [q \in QueuePaths |->
        {LeafName(q \o k) : k \in cc[q]} \cup cc[q]]

NoRemove ==
    [done |-> FALSE, queue |-> Root, ret |-> "false", pre |-> [q \in QueuePaths |-> {}]]

\* the queues whose objects a walk from the root reaches
RECURSIVE Linked(_, _)
Linked(q, children) ==
    \/ q = Root
    \/ /\ Len(q) > 1
       /\ LeafName(q) \in children[Parent(q)]
       /\ Linked(Parent(q), children)
InMirror(q) == Linked(q, childrenQueues)
InCache(q) == Linked(q, cacheChildren)

InitQueue ==
    /\ \E T \in QueueTrees :
        /\ cacheChildren = [q \in QueuePaths |->
                {LeafName(c) : c \in {c \in T \ {Root} : Parent(c) = q}}]
        /\ status = [q \in QueuePaths |-> IF q \in T THEN "Running" ELSE "Absent"]
        /\ managed \in ManagedFlags(T)
    /\ childrenQueues = NewSchedulingQueueInfo(cacheChildren)
    /\ applications = [q \in QueuePaths |-> {}]
    /\ panicked = FALSE
    /\ lastRemove = NoRemove
    /\ lastClean = {}

\* the queue part when another part is checked: a root-only partition
IdleQueue ==
    /\ cacheChildren = [q \in QueuePaths |-> {}]
    /\ status = [q \in QueuePaths |-> IF q = Root THEN "Running" ELSE "Absent"]
    /\ managed = [q \in QueuePaths |-> q = Root]
    /\ childrenQueues = [q \in QueuePaths |-> {}]
    /\ applications = [q \in QueuePaths |-> {}]
    /\ panicked = FALSE
    /\ lastRemove = NoRemove
    /\ lastClean = {}

\* SchedulingQueue.isManaged / isRunning / isDraining: the cache queue's answer
isManaged(q) == managed[q]
isRunning(q) == status[q] = "Running"
isDraining(q) == status[q] = "Draining"
\* cache QueueInfo.IsLeafQueue
isLeafQueue(q) == cacheChildren[q] = {}

Descendants(q) ==
    {d \in QueuePaths : Len(d) >= Len(q) /\ SubSeq(d, 1, Len(q)) = q}

\* cache QueueInfo.MarkQueueForRemoval: the queue and everything below it
\* becomes Draining
MarkQueueForRemoval(q) ==
    /\ ~panicked
    /\ InCache(q)
    /\ status[q] = "Running"
    /\ status' = [d \in QueuePaths |->
            IF d \in Descendants(q) /\ status[d] = "Running" THEN "Draining" ELSE status[d]]
    /\ lastRemove' = NoRemove
    /\ lastClean' = {}
    /\ UNCHANGED <<managed, cacheChildren, childrenQueues, applications, panicked>>
    /\ UNCHANGED nonQueueVars

\* sq.applications[app.ApplicationInfo.ApplicationId] = app, for an application
\* the cache accepted: a leaf queue that is Running
AddSchedulingApplication(q, app) ==
    /\ ~panicked
    /\ InMirror(q) /\ InCache(q)
    /\ isLeafQueue(q) /\ isRunning(q)
    /\ \A r \in QueuePaths : app \notin applications[r]
    /\ applications' = [applications EXCEPT ![q] = @ \cup {app}]
    /\ lastRemove' = NoRemove
    /\ lastClean' = {}
    /\ UNCHANGED <<managed, status, cacheChildren, childrenQueues, panicked>>
    /\ UNCHANGED nonQueueVars

\* delete(sq.applications, app.ApplicationInfo.ApplicationId)
RemoveSchedulingApplication(q, app) ==
    /\ ~panicked
    /\ app \in applications[q]
    /\ applications' = [applications EXCEPT ![q] = @ \ {app}]
    /\ lastRemove' = NoRemove
    /\ lastClean' = {}
    /\ UNCHANGED <<managed, status, cacheChildren, childrenQueues, panicked>>
    /\ UNCHANGED nonQueueVars

\* delete(sq.childrenQueues, name)
removeChildQueueOrAll(children, parent, name) ==
    [children EXCEPT ![parent] = IF name \in @ THEN @ \ {name} ELSE {}]
removeChildQueue(children, parent, name) ==
    [children EXCEPT ![parent] = @ \ {name}]

\* len(sq.childrenQueues) > 0 || len(sq.applications) > 0
QueueHasApplicationsOnly(q, children) == applications[q] # {}
QueueHasContent(q, children) == children[q] # {} \/ applications[q] # {}

\* SchedulingQueue.RemoveQueue on the mirror `children`: what it returns
\* ("panic": sq.parent is nil, removeChildQueue locks a nil queue) and the
\* mirror it leaves. The child is removed under the key sq.Name.
RemoveQueueResult(q, children) ==
    IF isManaged(q) /\ isRunning(q)
        THEN [ret |-> "false", children |-> children]
    ELSE IF QueueHasContent(q, children)
        THEN [ret |-> "false", children |-> children]
    ELSE IF q = Root
        THEN [ret |-> "panic", children |-> children]
    ELSE [ret |-> "true", children |-> removeChildQueue(children, Parent(q), q)]

\* a call of SchedulingQueue.RemoveQueue on a queue of the mirror
RemoveQueue(q) ==
    /\ ~panicked
    /\ InMirror(q)
    /\ LET r == RemoveQueueResult(q, childrenQueues)
       IN  /\ childrenQueues' = r.children
           /\ panicked' = (r.ret = "panic")
           /\ lastRemove' = [done |-> TRUE, queue |-> q, ret |-> r.ret,
                             pre |-> childrenQueues]
    /\ lastClean' = {}
    /\ UNCHANGED <<managed, status, cacheChildren, applications>>
    /\ UNCHANGED nonQueueVars

\* cache QueueInfo.RemoveQueue on the cache tree `cc`: the root is never
\* removed, a managed queue not while Running, no queue with children or
\* applications; otherwise the queue leaves its parent's children map (a queue
\* already gone from it: nothing changes) and the call returns true
CacheRemoveQueue(q, cc) ==
    IF q = Root \/ (isManaged(q) /\ isRunning(q)) \/ cc[q] # {} \/ applications[q] # {}
        THEN [ok |-> FALSE, children |-> cc]
        ELSE [ok |-> TRUE, children |-> [cc EXCEPT ![Parent(q)] = @ \ {LeafName(q)}]]

\* schedulingQueue.isDraining() || !schedulingQueue.isManaged()
CleanAnyQueue(q) == TRUE
CleanCandidate(q) == isDraining(q) \/ ~isManaged(q)

\* cleanQueues on one queue after its children are done. st: the cache tree,
\* the mirror, the log of removals tried, whether RemoveQueue panicked
CleanOne(q, st) ==
    IF CleanCandidate(q) /\ applications[q] = {} /\ ~st.panic
        THEN LET c == CacheRemoveQueue(q, st.cache)
                 m == RemoveQueueResult(q, st.mirror)
                 tried == [queue |-> q, managed |-> managed[q], status |-> status[q],
                           removed |-> c.ok]
             IN  IF c.ok
                    THEN [cache |-> c.children, mirror |-> m.children,
                          log |-> st.log \cup {tried}, panic |-> m.ret = "panic"]
                    ELSE [st EXCEPT !.log = @ \cup {tried}]
        ELSE st

\* cleanQueues(schedulingQueue): the children from GetCopyOfChildren first,
\* then the queue itself
RECURSIVE CleanQueuesFrom(_, _), CleanChildren(_, _, _)
CleanChildren(q, keys, st) ==
    IF keys = {}
        THEN st
        ELSE LET k == CHOOSE k \in keys : TRUE
             IN  CleanChildren(q, keys \ {k},
                    IF q \o k \in QueuePaths THEN CleanQueuesFrom(q \o k, st) ELSE st)
CleanQueuesFrom(q, st) ==
    CleanOne(q, CleanChildren(q, st.mirror[q], st))

\* one pass of the partition manager: manager.cleanQueues(manager.psc.Root)
cleanQueues ==
    /\ ~panicked
    /\ LET st == CleanQueuesFrom(Root, [cache |-> cacheChildren, mirror |-> childrenQueues,
                                        log |-> {}, panic |-> FALSE])
       IN  /\ cacheChildren' = st.cache
           /\ childrenQueues' = st.mirror
           /\ panicked' = st.panic
           /\ lastClean' = st.log
    /\ lastRemove' = NoRemove
    /\ UNCHANGED <<managed, status, applications>>
    /\ UNCHANGED nonQueueVars

NextQueue ==
    \/ \E q \in QueuePaths : MarkQueueForRemoval(q)
    \/ \E q \in QueuePaths, app \in AppIds : AddSchedulingApplication(q, app)
    \/ \E q \in QueuePaths, app \in AppIds : RemoveSchedulingApplication(q, app)
    \/ \E q \in QueuePaths : RemoveQueue(q)
    \/ cleanQueues

(***************************************************************************)
(* ClusterSchedulingContext and PartitionManager. A context is one         *)
(* PartitionSchedulingContext with its cache partition and with the        *)
(* PartitionManager created for it. The queues of a partition are the      *)
(* configured (managed) ones here, all in the same state: cleanQueues      *)
(* leaves them alone while they are Running.                               *)
(***************************************************************************)
\* number of partition contexts created over a run
MaxContexts == 3
\* applications and nodes per partition
MaxPartApps == 1
MaxNodes == 1

Contexts == 1..MaxContexts
PartAppIds == 1..MaxPartApps
NodeIds == 1..MaxNodes
RmIds == {"rm1", "rm2"}
\* normalized partition names, [rmId]partition
PartitionNames == {"[rm1]default", "[rm1]gpu", "[rm2]default"}
\* PartitionSchedulingContext.RmId
RmIdOf(name) == IF name = "[rm2]default" THEN "rm2" ELSE "rm1"

\* cache PartitionInfo.NeedPreemption: the partition's preemption.enabled
NeedPreemption(name) == name = "[rm1]gpu"

NoRm == [done |-> FALSE, rm |-> "rm1", partitions |-> [n \in PartitionNames |-> 0],
         mgrStop |-> [c \in Contexts |-> FALSE],
         rootStatus |-> [c \in Contexts |-> "None"]]

NoReq == [done |-> FALSE, op |-> "add", name |-> "[rm1]default", app |-> 1,
          err |-> "none", afterUnknown |-> FALSE,
          partitions |-> [n \in PartitionNames |-> 0],
          schedApps |-> [c \in Contexts |-> {}]]

\* NewClusterSchedulingContext()
InitCluster ==
    /\ partitions = [n \in PartitionNames |-> 0]
    /\ needPreemption = FALSE
    /\ ctxName = [c \in Contexts |-> ""]
    /\ mgrStop = [c \in Contexts |-> FALSE]
    /\ runPc = [c \in Contexts |-> "none"]
    /\ runStop = [c \in Contexts |-> FALSE]
    /\ rootStatus = [c \in Contexts |-> "None"]
    /\ cacheApps = [c \in Contexts |-> {}]
    /\ schedApps = [c \in Contexts |-> {}]
    /\ nodes = [c \in Contexts |-> {}]
    /\ cacheRemoved = [c \in Contexts |-> FALSE]
    /\ removeLog = [c \in Contexts |-> << >>]
    /\ stopRequested = [c \in Contexts |-> FALSE]
    /\ lastRm = NoRm
    /\ lastReq = NoReq

FreeContexts(names) == {c \in Contexts : names[c] = ""}

\* go newPartition.partitionManager.Run(): Run has a value receiver, the
\* goroutine works on a copy of the PartitionManager made by the go statement
ReceiverCopy(c, stop) == FALSE

\* the loop body of updateSchedulingPartitions for one updated partition
UpdateOnePartition(n, st) ==
    IF st.partitions[n] # 0
        THEN st
        ELSE LET c == CHOOSE c \in FreeContexts(st.ctxName) :
                        \A d \in FreeContexts(st.ctxName) : c <= d
             IN  [partitions |-> [st.partitions EXCEPT ![n] = c],
                  ctxName |-> [st.ctxName EXCEPT ![c] = n]]

RECURSIVE UpdateAllPartitions(_, _)
UpdateAllPartitions(P, st) ==
    IF P = {}
        THEN st
        ELSE LET n == CHOOSE n \in P : TRUE
             IN  UpdateAllPartitions(P \ {n}, UpdateOnePartition(n, st))

\* csc.updateSchedulingPartitions(partitions): an existing partition has its
\* queues updated; a new one gets a context, a PartitionManager and a
\* goroutine running it, and is entered in csc.partitions
updateSchedulingPartitions(P) ==
    /\ P # {}
    /\ Cardinality({n \in P : partitions[n] = 0}) <= Cardinality(FreeContexts(ctxName))
    /\ LET st == UpdateAllPartitions(P, [partitions |-> partitions, ctxName |-> ctxName])
           new == {c \in Contexts : ctxName[c] = "" /\ st.ctxName[c] # ""}
       IN  /\ partitions' = st.partitions
           /\ ctxName' = st.ctxName
           /\ mgrStop' = [c \in Contexts |-> IF c \in new THEN FALSE ELSE mgrStop[c]]
           /\ runStop' = [c \in Contexts |->
                   IF c \in new THEN ReceiverCopy(c, mgrStop) ELSE runStop[c]]
           /\ runPc' = [c \in Contexts |-> IF c \in new THEN "sleep" ELSE runPc[c]]
           /\ rootStatus' = [c \in Contexts |-> IF c \in new THEN "Running" ELSE rootStatus[c]]
    /\ needPreemption' = (needPreemption \/ \E n \in P : NeedPreemption(n))
    /\ lastRm' = NoRm
    /\ lastReq' = NoReq
    /\ UNCHANGED <<cacheApps, schedApps, nodes, cacheRemoved, removeLog, stopRequested>>
    /\ UNCHANGED nonClusterVars

\* partition.RmId == rmId
PartitionOfAnyRm(c, rm) == TRUE
PartitionOfRm(c, rm) == RmIdOf(ctxName[c]) = rm

\* csc.RemoveSchedulingPartitionsByRMId(rmId)
RemoveSchedulingPartitionsByRMId(rm) ==
    /\ LET partitionToRemove ==
               {n \in PartitionNames : partitions[n] # 0 /\ PartitionOfRm(partitions[n], rm)}
           stopped == {partitions[n] : n \in partitionToRemove}
       IN  /\ mgrStop' = [c \in Contexts |-> IF c \in stopped THEN TRUE ELSE mgrStop[c]]
           /\ stopRequested' = [c \in Contexts |->
                   IF c \in stopped THEN TRUE ELSE stopRequested[c]]
           /\ partitions' = [n \in PartitionNames |->
                   IF n \in partitionToRemove THEN 0 ELSE partitions[n]]
    /\ lastRm' = [done |-> TRUE, rm |-> rm, partitions |-> partitions,
                  mgrStop |-> mgrStop, rootStatus |-> rootStatus]
    /\ lastReq' = NoReq
    /\ UNCHANGED <<needPreemption, ctxName, runPc, runStop, rootStatus, cacheApps,
                   schedApps, nodes, cacheRemoved, removeLog>>
    /\ UNCHANGED nonClusterVars

\* PartitionManager.Stop(): a value receiver, manager.stop = true is set on
\* the copy made for the call
Stop(c) == mgrStop

\* csc.deleteSchedulingPartitions(partitions): Stop() for every partition
\* found, an error naming the others
deleteSchedulingPartitions(P) ==
    /\ P # {}
    /\ \E n \in P : partitions[n] # 0
    /\ LET found == {partitions[n] : n \in {n \in P : partitions[n] # 0}}
       IN  /\ mgrStop' = [c \in Contexts |-> IF c \in found THEN Stop(c)[c] ELSE mgrStop[c]]
           /\ stopRequested' = [c \in Contexts |->
                   IF c \in found THEN TRUE ELSE stopRequested[c]]
    /\ lastRm' = NoRm
    /\ lastReq' = NoReq
    /\ UNCHANGED <<partitions, needPreemption, ctxName, runPc, runStop, rootStatus,
                   cacheApps, schedApps, nodes, cacheRemoved, removeLog>>
    /\ UNCHANGED nonClusterVars

\* an application accepted by the cache partition and entered in the
\* scheduling partition found under its name; a partition whose queues are
\* Draining accepts none
AddPartitionApplication(n, a) ==
    /\ partitions[n] # 0
    /\ LET c == partitions[n]
       IN  /\ rootStatus[c] = "Running"
           /\ a \notin cacheApps[c]
           /\ cacheApps' = [cacheApps EXCEPT ![c] = @ \cup {a}]
           /\ schedApps' = [schedApps EXCEPT ![c] = @ \cup {a}]
    /\ lastRm' = NoRm
    /\ lastReq' = NoReq
    /\ UNCHANGED <<partitions, needPreemption, ctxName, mgrStop, runPc, runStop,
                   rootStatus, nodes, cacheRemoved, removeLog, stopRequested>>
    /\ UNCHANGED nonClusterVars

\* a node registered by the RM with the cache partition
AddNode(n, nd) ==
    /\ partitions[n] # 0
    /\ LET c == partitions[n]
       IN  /\ rootStatus[c] = "Running"
           /\ nd \notin nodes[c]
           /\ nodes' = [nodes EXCEPT ![c] = @ \cup {nd}]
    /\ lastRm' = NoRm
    /\ lastReq' = NoReq
    /\ UNCHANGED <<partitions, needPreemption, ctxName, mgrStop, runPc, runStop,
                   rootStatus, cacheApps, schedApps, cacheRemoved, removeLog,
                   stopRequested>>
    /\ UNCHANGED nonClusterVars

\* Run(): time.Sleep(manager.interval) returns
ManagerWake(c) ==
    /\ runPc[c] = "sleep"
    /\ runPc' = [runPc EXCEPT ![c] = "clean"]
    /\ lastRm' = NoRm
    /\ lastReq' = NoReq
    /\ UNCHANGED <<partitions, needPreemption, ctxName, mgrStop, runStop, rootStatus,
                   cacheApps, schedApps, nodes, cacheRemoved, removeLog, stopRequested>>
    /\ UNCHANGED nonClusterVars

\* Run(): manager.cleanQueues(manager.psc.Root), then if manager.stop { break }
\* on the receiver's own stop; after the loop comes manager.remove()
ManagerClean(c) ==
    /\ runPc[c] = "clean"
    /\ runPc' = [runPc EXCEPT ![c] = IF runStop[c] THEN "remove" ELSE "sleep"]
    /\ lastRm' = NoRm
    /\ lastReq' = NoReq
    /\ UNCHANGED <<partitions, needPreemption, ctxName, mgrStop, runStop, rootStatus,
                   cacheApps, schedApps, nodes, cacheRemoved, removeLog, stopRequested>>
    /\ UNCHANGED nonClusterVars

NextCluster ==
    \/ \E P \in SUBSET PartitionNames : updateSchedulingPartitions(P)
    \/ \E rm \in RmIds : RemoveSchedulingPartitionsByRMId(rm)
    \/ \E P \in SUBSET PartitionNames : deleteSchedulingPartitions(P)
    \/ \E c \in Contexts : ManagerWake(c)
    \/ \E c \in Contexts : ManagerClean(c)

\* PartitionManager.remove(): pi.Root.MarkQueueForRemoval()
removeMarkQueues(c) ==
    /\ runPc[c] = "remove"
    /\ rootStatus' = [rootStatus EXCEPT ![c] = "Draining"]
    /\ removeLog' = [removeLog EXCEPT ![c] = Append(@, "queues")]
    /\ runPc' = [runPc EXCEPT ![c] = "remove_apps"]
    /\ lastRm' = NoRm
    /\ lastReq' = NoReq
    /\ UNCHANGED <<partitions, needPreemption, ctxName, mgrStop, runStop, cacheApps,
                   schedApps, nodes, cacheRemoved, stopRequested>>
    /\ UNCHANGED nonClusterVars

\* the loop over pi.GetApplications() has no application left
RemoveAppsSkipped(c) == TRUE
RemoveAppsDone(c) == cacheApps[c] = {}

\* remove(): one round of the loop over the applications: KillApplication,
\* pi.RemoveApplication(appId), manager.psc.RemoveSchedulingApplication(appId)
removeApplication(c, a) ==
    /\ runPc[c] = "remove_apps"
    /\ ~RemoveAppsDone(c)
    /\ a \in cacheApps[c]
    /\ cacheApps' = [cacheApps EXCEPT ![c] = @ \ {a}]
    /\ schedApps' = [schedApps EXCEPT ![c] = @ \ {a}]
    /\ removeLog' = [removeLog EXCEPT ![c] = Append(@, "application")]
    /\ lastRm' = NoRm
    /\ lastReq' = NoReq
    /\ UNCHANGED <<partitions, needPreemption, ctxName, mgrStop, runPc, runStop,
                   rootStatus, nodes, cacheRemoved, stopRequested>>
    /\ UNCHANGED nonClusterVars

\* remove(): the loop over the applications is over, nodes := pi.CopyNodeInfos()
removeApplicationsDone(c) ==
    /\ runPc[c] = "remove_apps"
    /\ RemoveAppsDone(c)
    /\ runPc' = [runPc EXCEPT ![c] = "remove_nodes"]
    /\ lastRm' = NoRm
    /\ lastReq' = NoReq
    /\ UNCHANGED <<partitions, needPreemption, ctxName, mgrStop, runStop, rootStatus,
                   cacheApps, schedApps, nodes, cacheRemoved, removeLog, stopRequested>>
    /\ UNCHANGED nonClusterVars

\* remove(): one round of the loop over the nodes: pi.RemoveNode(nodeId)
removeNode(c, nd) ==
    /\ runPc[c] = "remove_nodes"
    /\ nd \in nodes[c]
    /\ nodes' = [nodes EXCEPT ![c] = @ \ {nd}]
    /\ removeLog' = [removeLog EXCEPT ![c] = Append(@, "node")]
    /\ lastRm' = NoRm
    /\ lastReq' = NoReq
    /\ UNCHANGED <<partitions, needPreemption, ctxName, mgrStop, runPc, runStop,
                   rootStatus, cacheApps, schedApps, cacheRemoved, stopRequested>>
    /\ UNCHANGED nonClusterVars

\* remove(): the loop over the nodes is over, pi.Remove()
removeCachePartition(c) ==
    /\ runPc[c] = "remove_nodes"
    /\ nodes[c] = {}
    /\ cacheRemoved' = [cacheRemoved EXCEPT ![c] = TRUE]
    /\ removeLog' = [removeLog EXCEPT ![c] = Append(@, "cache")]
    /\ runPc' = [runPc EXCEPT ![c] = "remove_unlink"]
    /\ lastRm' = NoRm
    /\ lastReq' = NoReq
    /\ UNCHANGED <<partitions, needPreemption, ctxName, mgrStop, runStop, rootStatus,
                   cacheApps, schedApps, nodes, stopRequested>>
    /\ UNCHANGED nonClusterVars

\* remove(): manager.csc.removeSchedulingPartition(manager.psc.Name), that is
\* delete(csc.partitions, partitionName); Run() returns
removeSchedulingPartition(c) ==
    /\ runPc[c] = "remove_unlink"
    /\ partitions' = [partitions EXCEPT ![ctxName[c]] = 0]
    /\ removeLog' = [removeLog EXCEPT ![c] = Append(@, "unlink")]
    /\ runPc' = [runPc EXCEPT ![c] = "exited"]
    /\ lastRm' = NoRm
    /\ lastReq' = NoReq
    /\ UNCHANGED <<needPreemption, ctxName, mgrStop, runStop, rootStatus, cacheApps,
                   schedApps, nodes, cacheRemoved, stopRequested>>
    /\ UNCHANGED nonClusterVars

\* Teardown: two partitions whose managers run on a receiver with stop set,
\* the only receivers for which Run() leaves its loop and calls remove()
InitRemove ==
    /\ partitions = [n \in PartitionNames |->
            IF n = "[rm1]default" THEN 1 ELSE IF n = "[rm2]default" THEN 2 ELSE 0]
    /\ needPreemption = FALSE
    /\ ctxName = [c \in Contexts |->
            IF c = 1 THEN "[rm1]default" ELSE IF c = 2 THEN "[rm2]default" ELSE ""]
    /\ mgrStop = [c \in Contexts |-> c \in {1, 2}]
    /\ runPc = [c \in Contexts |-> IF c \in {1, 2} THEN "sleep" ELSE "none"]
    /\ runStop = [c \in Contexts |-> c \in {1, 2}]
    /\ rootStatus = [c \in Contexts |-> IF c \in {1, 2} THEN "Running" ELSE "None"]
    /\ cacheApps = [c \in Contexts |-> {}]
    /\ schedApps = [c \in Contexts |-> {}]
    /\ nodes = [c \in Contexts |-> {}]
    /\ cacheRemoved = [c \in Contexts |-> FALSE]
    /\ removeLog = [c \in Contexts |-> << >>]
    /\ stopRequested = [c \in Contexts |-> c \in {1, 2}]
    /\ lastRm = NoRm
    /\ lastReq = NoReq

NextRemove ==
    \/ \E n \in PartitionNames, a \in PartAppIds : AddPartitionApplication(n, a)
    \/ \E n \in PartitionNames, nd \in NodeIds : AddNode(n, nd)
    \/ \E c \in Contexts : ManagerWake(c)
    \/ \E c \in Contexts : ManagerClean(c)
    \/ \E c \in Contexts : removeMarkQueues(c)
    \/ \E c \in Contexts, a \in PartAppIds : removeApplication(c, a)
    \/ \E c \in Contexts : removeApplicationsDone(c)
    \/ \E c \in Contexts, nd \in NodeIds : removeNode(c, nd)
    \/ \E c \in Contexts : removeCachePartition(c)
    \/ \E c \in Contexts : removeSchedulingPartition(c)

\* teardown and registration side by side: RM disconnects and registrations
\* of partitions while managers that left their loop run remove()
NextTeardown ==
    \/ \E n \in PartitionNames : updateSchedulingPartitions({n})
    \/ \E rm \in RmIds : RemoveSchedulingPartitionsByRMId(rm)
    \/ \E c \in Contexts : ManagerWake(c)
    \/ \E c \in Contexts : ManagerClean(c)
    \/ \E c \in Contexts : removeMarkQueues(c)
    \/ \E c \in Contexts : removeApplicationsDone(c)
    \/ \E c \in Contexts : removeCachePartition(c)
    \/ \E c \in Contexts : removeSchedulingPartition(c)

\* partition.AddSchedulingApplication(schedulingApp) of the partition
\* context c: an application id already known to the partition is an error
PartitionAddApplication(c, a, apps) ==
    IF a \in apps[c]
        THEN [err |-> "partition", apps |-> apps]
        ELSE [err |-> "none", apps |-> [apps EXCEPT ![c] = @ \cup {a}]]

\* partition.RemoveSchedulingApplication(appId) of the partition context c: an
\* application id the partition does not know is an error
PartitionRemoveApplication(c, a, apps) ==
    IF a \notin apps[c]
        THEN [err |-> "partition", apps |-> apps]
        ELSE [err |-> "none", apps |-> [apps EXCEPT ![c] = @ \ {a}]]

\* partition := csc.partitions[partitionName]; 0 stands for nil
LookupOrFirst(n) ==
    IF partitions[n] # 0 \/ \A m \in PartitionNames : partitions[m] = 0
        THEN partitions[n]
        ELSE partitions[CHOOSE m \in PartitionNames : partitions[m] # 0]
LookupPartition(n) == partitions[n]

\* csc.AddSchedulingApplication(schedulingApp) for the application a of the
\* partition named n
CscAddSchedulingApplication(n, a) ==
    /\ LET partition == LookupPartition(n)
           res == IF partition # 0
                      THEN PartitionAddApplication(partition, a, schedApps)
                      ELSE [err |-> "unknown", apps |-> schedApps]
       IN  /\ schedApps' = res.apps
           /\ lastReq' = [done |-> TRUE, op |-> "add", name |-> n, app |-> a,
                          err |-> res.err,
                          afterUnknown |-> (lastReq.done /\ lastReq.err = "unknown"),
                          partitions |-> partitions, schedApps |-> schedApps]
    /\ lastRm' = NoRm
    /\ UNCHANGED <<partitions, needPreemption, ctxName, mgrStop, runPc, runStop,
                   rootStatus, cacheApps, nodes, cacheRemoved, removeLog, stopRequested>>
    /\ UNCHANGED nonClusterVars

\* csc.RemoveSchedulingApplication(appId, partitionName)
CscRemoveSchedulingApplication(n, a) ==
    /\ LET partition == LookupPartition(n)
           res == IF partition # 0
                      THEN PartitionRemoveApplication(partition, a, schedApps)
                      ELSE [err |-> "unknown", apps |-> schedApps]
       IN  /\ schedApps' = res.apps
           /\ lastReq' = [done |-> TRUE, op |-> "remove", name |-> n, app |-> a,
                          err |-> res.err,
                          afterUnknown |-> (lastReq.done /\ lastReq.err = "unknown"),
                          partitions |-> partitions, schedApps |-> schedApps]
    /\ lastRm' = NoRm
    /\ UNCHANGED <<partitions, needPreemption, ctxName, mgrStop, runPc, runStop,
                   rootStatus, cacheApps, nodes, cacheRemoved, removeLog, stopRequested>>
    /\ UNCHANGED nonClusterVars

\* application requests of the RMs against a growing set of partitions
NextRequests ==
    \/ \E P \in SUBSET PartitionNames : updateSchedulingPartitions(P)
    \/ \E n \in PartitionNames, a \in PartAppIds : CscAddSchedulingApplication(n, a)
    \/ \E n \in PartitionNames, a \in PartAppIds : CscRemoveSchedulingApplication(n, a)

\* the scheduler gives every goroutine that can run a turn
ManagerFairness ==
    \A c \in Contexts : WF_vars(ManagerWake(c)) /\ WF_vars(ManagerClean(c))

(***************************************************************************)
(* Cross-queue preemption (DRF surgical preemption). Resources are          *)
(* quantities per resource type; a missing key of the Go map is quantity 0. *)
(***************************************************************************)
ResTypes == {"cpu", "gpu"}
Zero == [k \in ResTypes |-> 0]
Res(c, g) == [k \in ResTypes |-> IF k = "cpu" THEN c ELSE g]

\* resources.Add, resources.Sub, resources.SubEliminateNegative,
\* resources.ComponentWiseMax
ResAdd(l, r) == [k \in ResTypes |-> l[k] + r[k]]
ResSub(l, r) == [k \in ResTypes |-> l[k] - r[k]]
SubEliminateNegative(l, r) == [k \in ResTypes |-> IF l[k] - r[k] < 0 THEN 0 ELSE l[k] - r[k]]
ComponentWiseMax(l, r) == [k \in ResTypes |-> IF l[k] > r[k] THEN l[k] ELSE r[k]]

\* resources.StrictlyGreaterThan: no quantity smaller, at least one larger
StrictlyGreaterThan(larger, smaller) ==
    /\ \A k \in ResTypes : larger[k] >= smaller[k]
    /\ \E k \in ResTypes : larger[k] > smaller[k]
\* resources.StrictlyGreaterThanZero: no quantity negative, at least one positive
StrictlyGreaterThanZero(r) == StrictlyGreaterThan(r, Zero)
\* resources.StrictlyGreaterThanOrEquals: every quantity at least as large
StrictlyGreaterThanOrEquals(larger, smaller) == \A k \in ResTypes : larger[k] >= smaller[k]
\* resources.FitIn
FitIn(larger, smaller) == \A k \in ResTypes : smaller[k] <= larger[k]

\* the share of a resource in the total, per type, scaled by the product of
\* the totals so that it stays an integer
Share(total, r, k) == r[k] * (IF k = "cpu" THEN total["gpu"] ELSE total["cpu"])
MaxShare(total, r) ==
    IF Share(total, r, "cpu") >= Share(total, r, "gpu")
        THEN Share(total, r, "cpu") ELSE Share(total, r, "gpu")
MinShare(total, r) ==
    IF Share(total, r, "cpu") >= Share(total, r, "gpu")
        THEN Share(total, r, "gpu") ELSE Share(total, r, "cpu")
\* resources.Comp(total, left, right): the shares of both, largest first,
\* compared one by one; 1 when left is the larger, -1 when right is, else 0
Comp(total, l, r) ==
    IF MaxShare(total, l) > MaxShare(total, r) THEN 1
    ELSE IF MaxShare(total, l) < MaxShare(total, r) THEN -1
    ELSE IF MinShare(total, l) > MinShare(total, r) THEN 1
    ELSE IF MinShare(total, l) < MinShare(total, r) THEN -1
    ELSE 0

\* allocations looked at per call
MaxAllocs == 2
AllocIds == 1..MaxAllocs
PNodes == {1, 2}
\* nodes as crossQueuePreemptionAllocate gets them: a slice, walked in order
NodeList == <<1, 2>>
\* the queues of the preemption partition context and its leafQueues
PQueues == {"root", "root.low", "root.mid", "root.high"}
LeafQueues == {"root.low", "root.mid", "root.high"}
PParent(q) == IF q = "root" THEN "nil" ELSE "root"
\* the queue and its ancestors: cur = cur.parent until nil
PPath(q) == IF q = "root" THEN {"root"} ELSE {q, "root"}
partitionTotalResource == Res(4, 4)

\* inputs of a call
AskResources == {Res(1, 0), Res(0, 1)}
CandidateQueues == {"root.high", "root.gone"}
AllocResources == {Res(1, 0), Res(0, 1)}
AllocQueues == {"root.low", "root.mid"}
AvailableResources == {Zero, Res(1, 1)}
PreemptableOfLow == {Zero, Res(0, 2), Res(1, 1)}
MaxOfHigh == {Res(4, 4), Zero}

\* a headroom shortage map; a queue without an entry has shortage Zero (the
\* shortages kept in the map are greater than zero)
NoShortage == [q \in PQueues |-> Zero]
NoRun == [pc |-> "idle", next |-> 1, node |-> 0, remaining |-> {}, toRelease |-> << >>,
          total |-> Zero, toPreempt |-> Zero, shortages |-> NoShortage,
          shortagesAtStart |-> NoShortage, selected |-> {}, idle |-> {}]
NoResult == [done |-> FALSE, nil |-> TRUE, node |-> 0, releases |-> {}, victims |-> << >>,
             toPreempt |-> Zero]

\* preemptionPartitionContext, nodes and candidate as a scheduling pass hands
\* them over: nothing allocating, preempting or marked for preemption yet
InitPreempt ==
    /\ candidate \in [queue : CandidateQueues, resource : AskResources, ctxNil : BOOLEAN]
    /\ \E low \in PreemptableOfLow, max \in MaxOfHigh :
           preemptQueues = [q \in PQueues |->
               [max |-> IF q = "root.high" THEN max ELSE partitionTotalResource,
                allocating |-> Zero,
                markedPreempted |-> Zero,
                preemptable |-> IF q = "root.low" THEN low
                                ELSE IF q = "root.mid" THEN Res(1, 0) ELSE Zero]]
    /\ \E av \in AvailableResources :
           preemptNodes = [n \in PNodes |->
               [allocating |-> Zero, preempting |-> Zero,
                available |-> IF n = 2 THEN av ELSE Zero]]
    /\ nodeAllocations \in [AllocIds -> [node : PNodes, queue : AllocQueues,
                                        resource : AllocResources]]
    /\ preemptRun = NoRun
    /\ preemptResult = NoResult
    /\ preemptBefore = [queues |-> preemptQueues, nodes |-> preemptNodes]

\* no preemption call
IdlePreempt ==
    /\ candidate = [queue |-> "root.high", resource |-> Zero, ctxNil |-> TRUE]
    /\ preemptQueues = [q \in PQueues |->
           [max |-> Zero, allocating |-> Zero, markedPreempted |-> Zero, preemptable |-> Zero]]
    /\ preemptNodes = [n \in PNodes |->
           [allocating |-> Zero, preempting |-> Zero, available |-> Zero]]
    /\ nodeAllocations = [a \in AllocIds |->
           [node |-> 1, queue |-> "root.low", resource |-> Zero]]
    /\ preemptRun = NoRun
    /\ preemptResult = NoResult
    /\ preemptBefore = [queues |-> preemptQueues, nodes |-> preemptNodes]

\* a Go map from queue path to resource as a function on its keys, and as the
\* function on all queues in which a queue without an entry has shortage Zero
ToTotal(m) == [q \in PQueues |-> IF q \in DOMAIN m THEN m[q] ELSE Zero]
ToMap(total) == [q \in {p \in PQueues : total[p] # Zero} |-> total[q]]

\* Headroom = max - may_allocated + preempting
Headroom(q) ==
    ResAdd(ResSub(preemptQueues[q].max, preemptQueues[q].allocating),
           preemptQueues[q].markedPreempted)

\* initHeadroomShortages(preemptorQueue, allocatedResource): the map returned
initHeadroomShortagesNoPreempting(preemptor, res) ==
    LET headroomShortage(q) ==
            SubEliminateNegative(res, ResSub(preemptQueues[q].max, preemptQueues[q].allocating))
    IN  [q \in {p \in PPath(preemptor) : StrictlyGreaterThanZero(headroomShortage(p))} |->
            headroomShortage(q)]
initHeadroomShortagesMap(preemptor, res) ==
    LET headroomShortage(q) == SubEliminateNegative(res, Headroom(q))
    IN  [q \in {p \in PPath(preemptor) : StrictlyGreaterThanZero(headroomShortage(p))} |->
            headroomShortage(q)]

\* initHeadroomShortages(preemptorQueue, allocatedResource)
initHeadroomShortages(preemptor, res) == ToTotal(initHeadroomShortagesMap(preemptor, res))

\* headroomShortageUpdate(preemptor, preemptee, allocationResource,
\* queueHeadroomShortages) on the Go map: the map after the call and the
\* value returned
headroomShortageUpdateKeepingEntries(preemptee, allocationResource, m) ==
    LET new(q) == SubEliminateNegative(m[q], allocationResource)
        Contributes(q) ==
            /\ q \in PPath(preemptee)
            /\ q \in DOMAIN m
            /\ StrictlyGreaterThan(m[q], new(q))
    IN  [shortages |-> [q \in DOMAIN m |-> IF Contributes(q) THEN new(q) ELSE m[q]],
         positive |-> (DOMAIN m # {} /\ \E q \in PQueues : Contributes(q))]
headroomShortageUpdateMap(preemptee, allocationResource, m) ==
    LET new(q) == SubEliminateNegative(m[q], allocationResource)
        Contributes(q) ==
            /\ q \in PPath(preemptee)
            /\ q \in DOMAIN m
            /\ StrictlyGreaterThan(m[q], new(q))
        deleted == {q \in DOMAIN m : Contributes(q) /\ ~StrictlyGreaterThanZero(new(q))}
    IN  [shortages |-> [q \in DOMAIN m \ deleted |->
                            IF Contributes(q) THEN new(q) ELSE m[q]],
         positive |-> (DOMAIN m # {} /\ \E q \in PQueues : Contributes(q))]

\* headroomShortageUpdate(preemptor, preemptee, allocationResource,
\* queueHeadroomShortages): the map after the call and the value returned
headroomShortageUpdate(preemptee, allocationResource, shortages) ==
    LET r == headroomShortageUpdateMap(preemptee, allocationResource, ToMap(shortages))
    IN  [shortages |-> ToTotal(r.shortages), positive |-> r.positive]

\* preemptionPartitionContext.leafQueues[candidate.QueueName]
PreemptorQueueDefault(cand) == "root.high"
PreemptorQueue(cand) == IF cand.queue \in LeafQueues THEN cand.queue ELSE "nil"

\* crossQueuePreemptionAllocate: the nil checks and initHeadroomShortages
PreemptStart ==
    /\ preemptRun.pc = "idle"
    /\ IF candidate.ctxNil \/ PreemptorQueue(candidate) = "nil"
           THEN /\ preemptRun' = [preemptRun EXCEPT !.pc = "done"]
                /\ preemptResult' = [NoResult EXCEPT !.done = TRUE]
           ELSE /\ LET shortages == initHeadroomShortages(PreemptorQueue(candidate),
                                                          candidate.resource)
                   IN  preemptRun' = [preemptRun EXCEPT !.pc = "nodes",
                                          !.shortages = shortages,
                                          !.shortagesAtStart = shortages]
                /\ UNCHANGED preemptResult
    /\ UNCHANGED <<candidate, preemptQueues, preemptNodes, nodeAllocations, preemptBefore>>
    /\ UNCHANGED nonPreemptVars

\* resourceToPreempt of trySurgicalPreemptionOnNode
ResourceToPreempt(node, ask) ==
    ComponentWiseMax(ResSub(ResSub(ResAdd(node.allocating, ask), node.preempting),
                            node.available), Zero)

\* SchedulingNode.CheckAndAllocateResource(delta, true): the allocating
\* resource with delta added fits in the available plus the preempting
\* resource; when it does the allocating resource is updated
CheckAndAllocateResource(node, delta) ==
    LET newAllocating == ResAdd(delta, node.allocating)
    IN  IF FitIn(ResAdd(node.available, node.preempting), newAllocating)
            THEN [ok |-> TRUE, node |-> [node EXCEPT !.allocating = newAllocating]]
            ELSE [ok |-> FALSE, node |-> node]

\* trySurgicalPreemptionOnNode for the next node of the slice, up to the
\* loop over node.NodeInfo.GetAllAllocations()
TryNode ==
    /\ preemptRun.pc = "nodes"
    /\ preemptRun.next <= Len(NodeList)
    /\ LET n == NodeList[preemptRun.next]
           check == CheckAndAllocateResource(preemptNodes[n], candidate.resource)
           started == [preemptRun EXCEPT !.node = n, !.toRelease = << >>, !.total = Zero,
                           !.toPreempt = ResourceToPreempt(preemptNodes[n], candidate.resource)]
       IN  /\ preemptNodes' = [preemptNodes EXCEPT ![n] = check.node]
           /\ preemptRun' =
                  IF check.ok
                      THEN [started EXCEPT !.pc = "emit", !.remaining = {}]
                      ELSE [started EXCEPT !.pc = "loop",
                                !.remaining = {a \in AllocIds : nodeAllocations[a].node = n}]
    /\ UNCHANGED <<candidate, preemptQueues, nodeAllocations, preemptResult, preemptBefore>>
    /\ UNCHANGED nonPreemptVars

\* the allocation is passed over: its queue is no leaf queue of the context,
\* has no preemptable resource, or taking the ask's resource from the
\* preemptable resource does not make it smaller
SkipAllocation(alloc) ==
    \/ alloc.queue \notin LeafQueues
    \/ Comp(partitionTotalResource, preemptQueues[alloc.queue].preemptable, Zero) <= 0
    \/ Comp(partitionTotalResource,
            SubEliminateNegative(preemptQueues[alloc.queue].preemptable, candidate.resource),
            preemptQueues[alloc.queue].preemptable) >= 0

\* resources.StrictlyGreaterThanOrEquals(totalReleasedResource, resourceToPreempt)
EnoughCpuReleased(total, toPreempt) == total["cpu"] >= toPreempt["cpu"]
EnoughReleased(total, toPreempt) == StrictlyGreaterThanOrEquals(total, toPreempt)

\* one round of the loop over the node's allocations, which come out of a
\* map in any order
VisitAllocation(a) ==
    /\ preemptRun.pc = "loop"
    /\ a \in preemptRun.remaining
    /\ LET alloc == nodeAllocations[a]
           update == headroomShortageUpdate(alloc.queue, alloc.resource, preemptRun.shortages)
           total == ResAdd(preemptRun.total, alloc.resource)
       IN  preemptRun' =
               IF SkipAllocation(alloc)
                   THEN [preemptRun EXCEPT !.remaining = @ \ {a}]
                   ELSE [preemptRun EXCEPT
                            !.remaining = @ \ {a},
                            !.shortages = update.shortages,
                            !.toRelease = Append(@, a),
                            !.total = total,
                            !.selected = @ \cup {a},
                            !.idle = IF update.positive THEN @ ELSE @ \cup {a},
                            !.pc = IF EnoughReleased(total, preemptRun.toPreempt)
                                       THEN "emit" ELSE "loop"]
    /\ UNCHANGED <<candidate, preemptQueues, preemptNodes, nodeAllocations, preemptResult,
                   preemptBefore>>
    /\ UNCHANGED nonPreemptVars

\* the loop over the allocations ends without enough released: return nil,
\* crossQueuePreemptionAllocate goes on with the next node
NodeFailed ==
    /\ preemptRun.pc = "loop"
    /\ preemptRun.remaining = {}
    /\ preemptRun' = [preemptRun EXCEPT !.pc = "nodes", !.next = @ + 1]
    /\ UNCHANGED <<candidate, preemptQueues, preemptNodes, nodeAllocations, preemptResult,
                   preemptBefore>>
    /\ UNCHANGED nonPreemptVars

\* crossQueuePreemptionAllocate: no node gave a result, return nil
ReturnNil ==
    /\ preemptRun.pc = "nodes"
    /\ preemptRun.next > Len(NodeList)
    /\ preemptRun' = [preemptRun EXCEPT !.pc = "done"]
    /\ preemptResult' = [NoResult EXCEPT !.done = TRUE]
    /\ UNCHANGED <<candidate, preemptQueues, preemptNodes, nodeAllocations, preemptBefore>>
    /\ UNCHANGED nonPreemptVars

\* alloc.ApplicationId: every allocation belongs to an application of its own
ApplicationIdOf(a) == a

\* the loop of createPreemptionAndAllocationProposal over toReleaseAllocations:
\* the queues after markedPreemptedResource and preemptable are updated
RECURSIVE ReleaseAll(_, _)
ReleaseAll(toRelease, queues) ==
    IF toRelease = << >>
        THEN queues
        ELSE LET alloc == nodeAllocations[Head(toRelease)]
             IN  ReleaseAll(Tail(toRelease),
                    [queues EXCEPT
                        ![alloc.queue].markedPreempted = ResAdd(@, alloc.resource),
                        ![alloc.queue].preemptable = SubEliminateNegative(@, alloc.resource)])

\* crossQueuePreemptionAllocate with a result: IncAllocatingResource of the
\* preemptor queue, then createPreemptionAndAllocationProposal
EmitProposal ==
    /\ preemptRun.pc = "emit"
    /\ LET n == preemptRun.node
           preemptor == PreemptorQueue(candidate)
           incremented == [preemptQueues EXCEPT
                              ![preemptor].allocating = ResAdd(@, candidate.resource)]
       IN  /\ preemptQueues' = ReleaseAll(preemptRun.toRelease, incremented)
           /\ preemptNodes' = [preemptNodes EXCEPT
                  ![n].preempting = ResAdd(@, preemptRun.total),
                  ![n].allocating = ResAdd(@, candidate.resource)]
           /\ preemptResult' =
                  [done |-> TRUE, nil |-> FALSE, node |-> n,
                   releases |-> {[uuid |-> a, applicationId |-> ApplicationIdOf(a),
                                  node |-> n,
                                  terminationType |-> "PREEMPTED_BY_SCHEDULER"] :
                                 a \in {preemptRun.toRelease[i] :
                                           i \in 1..Len(preemptRun.toRelease)}},
                   victims |-> preemptRun.toRelease,
                   toPreempt |-> preemptRun.toPreempt]
    /\ preemptRun' = [preemptRun EXCEPT !.pc = "done"]
    /\ UNCHANGED <<candidate, nodeAllocations, preemptBefore>>
    /\ UNCHANGED nonPreemptVars

NextPreempt ==
    \/ PreemptStart
    \/ TryNode
    \/ \E a \in AllocIds : VisitAllocation(a)
    \/ NodeFailed
    \/ ReturnNil
    \/ EmitProposal

(***************************************************************************)
(* Placement: the fixed rule. A string is the sequence of its characters.  *)
(***************************************************************************)
\* configs.RootQueue, cache.DOT
RootQueue == <<"r", "o", "o", "t">>
DOT == <<".">>
NoString == << >>

\* strings.HasPrefix
HasPrefix(str, prefix) ==
    Len(str) >= Len(prefix) /\ SubSeq(str, 1, Len(prefix)) = prefix
\* normalise(name): the name in lower case
normalise(name) == [i \in 1..Len(name) |-> IF name[i] = "R" THEN "r" ELSE name[i]]

\* conf.Value of the rules looked at: q, p, root.q, rootx, Root.q and none
RuleValues == {<<"q">>, <<"p">>, RootQueue \o DOT \o <<"q">>, RootQueue \o <<"x">>,
               <<"R", "o", "o", "t", ".", "q">>, NoString}
\* what the parent rule's placeApplication returns for the application:
\* an error, no queue, or the name of p (a parent queue), l (a leaf queue) or
\* n (not a queue of the partition), qualified or not
ParentPaths == {NoString, <<"p">>, RootQueue \o DOT \o <<"p">>, <<"l">>,
                RootQueue \o DOT \o <<"l">>, RootQueue \o DOT \o <<"n">>}
ParentResults ==
    {[path |-> pp, err |-> "none"] : pp \in ParentPaths}
        \cup {[path |-> NoString, err |-> "parent rule failed"]}
\* the queues of the partition, with and without the queues named q
QueueSets ==
    {[paths |-> {RootQueue, RootQueue \o DOT \o <<"p">>, RootQueue \o DOT \o <<"l">>},
      leaves |-> {RootQueue \o DOT \o <<"l">>}],
     [paths |-> {RootQueue, RootQueue \o DOT \o <<"p">>, RootQueue \o DOT \o <<"l">>,
                 RootQueue \o DOT \o <<"q">>,
                 RootQueue \o DOT \o <<"p">> \o DOT \o <<"q">>},
      leaves |-> {RootQueue \o DOT \o <<"l">>, RootQueue \o DOT \o <<"q">>,
                  RootQueue \o DOT \o <<"p">> \o DOT \o <<"q">>}]}

NoRule == [state |-> "new", queue |-> NoString, qualified |-> FALSE, create |-> FALSE,
           hasParent |-> FALSE]
NoPlacement == [done |-> FALSE, path |-> NoString, err |-> "none", panic |-> FALSE,
                parentCalled |-> FALSE]

\* a rule configuration, an application whose user the filter allows or not,
\* and a partition
InitPlace ==
    /\ ruleConf \in [Value : RuleValues, Create : BOOLEAN, hasParent : BOOLEAN,
                     parentResult : ParentResults, allowUser : BOOLEAN,
                     queues : QueueSets]
    /\ ~ruleConf.hasParent => ruleConf.parentResult = [path |-> NoString, err |-> "none"]
    /\ partitionQueues = ruleConf.queues
    /\ fixedRule = NoRule
    /\ placement = NoPlacement

\* no rule
IdlePlace ==
    /\ ruleConf = [Value |-> NoString, Create |-> FALSE, hasParent |-> FALSE,
                   parentResult |-> [path |-> NoString, err |-> "none"],
                   allowUser |-> FALSE,
                   queues |-> [paths |-> {RootQueue}, leaves |-> {}]]
    /\ partitionQueues = ruleConf.queues
    /\ fixedRule = NoRule
    /\ placement = NoPlacement

\* fr.qualified = strings.HasPrefix(fr.queue, configs.RootQueue)
QualifiedAlways(queue) == TRUE
Qualified(queue) == HasPrefix(queue, RootQueue)

\* fixedRule.initialise(conf)
initialise ==
    /\ fixedRule.state = "new"
    /\ LET queue == normalise(ruleConf.Value)
           qualified == Qualified(queue)
       IN  fixedRule' =
               IF queue = NoString \/ (qualified /\ ruleConf.hasParent)
                   THEN [NoRule EXCEPT !.state = "failed", !.queue = queue,
                                       !.qualified = qualified]
                   ELSE [state |-> "ready", queue |-> queue, qualified |-> qualified,
                         create |-> ruleConf.Create, hasParent |-> ruleConf.hasParent]
    /\ UNCHANGED <<ruleConf, partitionQueues, placement>>
    /\ UNCHANGED nonPlaceVars

\* info.GetQueue(parentName).IsLeafQueue()
ParentIsNeverLeaf(info, parentName) == FALSE
ParentIsLeaf(info, parentName) == parentName \in info.leaves

\* what fixedRule.placeApplication(app, info) returns. nilCallPanics:
\* IsLeafQueue called on the nil that GetQueue returns for a path that is no
\* queue either panics or answers false
fixedPlacement(nilCallPanics) ==
    LET fr == fixedRule
        parent == ruleConf.parentResult
        skip == [NoPlacement EXCEPT !.done = TRUE]
        parentName == IF HasPrefix(parent.path, RootQueue \o DOT)
                          THEN parent.path
                          ELSE RootQueue \o DOT \o parent.path
        queueName == IF fr.qualified THEN fr.queue
                     ELSE IF fr.hasParent THEN parentName \o DOT \o fr.queue
                     ELSE RootQueue \o DOT \o fr.queue
        placed == IF ~fr.create /\ queueName \notin partitionQueues.paths
                      THEN skip
                      ELSE [skip EXCEPT !.path = queueName]
    IN  IF ~ruleConf.allowUser THEN skip
        ELSE IF fr.qualified \/ ~fr.hasParent THEN placed
        ELSE IF parent.err # "none"
            THEN [skip EXCEPT !.err = parent.err, !.parentCalled = TRUE]
        ELSE IF parent.path = NoString THEN [skip EXCEPT !.parentCalled = TRUE]
        ELSE IF parentName \notin partitionQueues.paths /\ nilCallPanics
            THEN [skip EXCEPT !.panic = TRUE, !.parentCalled = TRUE]
        ELSE IF ParentIsLeaf(partitionQueues, parentName)
            THEN [skip EXCEPT !.err = "parent rule returned a leaf queue",
                              !.parentCalled = TRUE]
        ELSE [placed EXCEPT !.parentCalled = TRUE]

\* fixedRule.placeApplication(app, info)
placeApplication(nilCallPanics) ==
    /\ fixedRule.state = "ready"
    /\ ~placement.done
    /\ placement' = fixedPlacement(nilCallPanics)
    /\ UNCHANGED <<ruleConf, partitionQueues, fixedRule>>
    /\ UNCHANGED nonPlaceVars

NextPlace ==
    \/ initialise
    \/ \E nilCallPanics \in BOOLEAN : placeApplication(nilCallPanics)

(***************************************************************************)
(* Placement: the provided rule. Its parent rule, when it has one, is the   *)
(* fixed rule above.                                                        *)
(***************************************************************************)
\* the queue the application was submitted with: q, root.q, root.p.q, rootq
AppQueues == {<<"q">>, RootQueue \o DOT \o <<"q">>,
              RootQueue \o DOT \o <<"p">> \o DOT \o <<"q">>,
              RootQueue \o <<"q">>}

NoProvidedPlacement == [done |-> FALSE, path |-> NoString, err |-> "none",
                        panic |-> FALSE, parentCalled |-> FALSE,
                        parentPath |-> NoString]

\* a provided rule with or without a parent, an application and a partition
InitProvided ==
    /\ InitPlace
    /\ provided \in [queue : AppQueues, hasParent : BOOLEAN, create : BOOLEAN,
                      allowUser : BOOLEAN]
    /\ providedPlacement = NoProvidedPlacement

\* no provided rule
IdleProvided ==
    /\ provided = [queue |-> NoString, hasParent |-> FALSE, create |-> FALSE,
                   allowUser |-> FALSE]
    /\ providedPlacement = NoProvidedPlacement

\* the submitted queue is fully qualified
providedQualified(queueName) == HasPrefix(queueName, RootQueue \o DOT)

\* providedRule.placeApplication(app, info), the parent rule being the fixed
\* rule
providedPlaceApplication(nilCallPanics) ==
    /\ ~providedPlacement.done
    /\ provided.hasParent => fixedRule.state = "ready"
    /\ LET pr == provided
           parent == fixedPlacement(nilCallPanics)
           skip == [NoProvidedPlacement EXCEPT !.done = TRUE]
           asked == [skip EXCEPT !.parentCalled = TRUE, !.parentPath = parent.path]
           parentName == IF HasPrefix(parent.path, RootQueue \o DOT)
                             THEN parent.path
                             ELSE RootQueue \o DOT \o parent.path
           queueName == IF providedQualified(pr.queue) THEN pr.queue
                        ELSE IF pr.hasParent THEN parentName \o DOT \o pr.queue
                        ELSE RootQueue \o DOT \o pr.queue
           place(r) == IF ~pr.create /\ queueName \notin partitionQueues.paths
                           THEN r
                           ELSE [r EXCEPT !.path = queueName]
       IN  providedPlacement' =
               IF ~pr.allowUser THEN skip
               ELSE IF providedQualified(pr.queue) \/ ~pr.hasParent THEN place(skip)
               ELSE IF parent.panic THEN [asked EXCEPT !.panic = TRUE]
               ELSE IF parent.err # "none" THEN [asked EXCEPT !.err = parent.err]
               ELSE IF parent.path = NoString THEN asked
               ELSE IF ParentIsLeaf(partitionQueues, parentName)
                   THEN [asked EXCEPT !.err = "parent rule returned a leaf queue"]
               ELSE place(asked)
    /\ UNCHANGED provided
    /\ UNCHANGED placeVars
    /\ UNCHANGED nonProvidedVars

NextProvided ==
    \/ initialise
    \/ \E nilCallPanics \in BOOLEAN : providedPlaceApplication(nilCallPanics)

(***************************************************************************)
(* Sorters. An element of a slice is a queue, an application or a node:    *)
(*   id   - rank of the queue path, application id or node id in           *)
(*          lexicographic order                                            *)
(*   res  - ProposingResource, MayAllocatedResource or                     *)
(*          CachedAvailableResource                                        *)
(*   cap  - CachedQueueInfo.GuaranteedResource (queues)                    *)
(*   time - ApplicationInfo.SubmissionTime (applications)                  *)
(***************************************************************************)
FairSortPolicy == 0
FifoSortPolicy == 1
MaxAvailableResources == 2
SortTypes == {FairSortPolicy, FifoSortPolicy, MaxAvailableResources}

\* elements per slice
MaxSortLen == 3
SortIds == 1..MaxSortLen
SortResources == {Res(1, 0), Res(2, 0), Res(1, 1)}
GuaranteedResources == {Res(1, 1), Res(2, 2)}
SubmissionTimes == {1, 2}
\* globalResource of SortApplications
globalResource == Res(2, 2)

\* the share res[k] / cap[k] as the pair <<numerator, denominator>>
Ratio(res, cap, k) == <<res[k], cap[k]>>
RatioLess(x, y) == x[1] * y[2] < y[1] * x[2]
\* the largest and the smallest share of res in cap
DominantShare(res, cap) ==
    IF RatioLess(Ratio(res, cap, "cpu"), Ratio(res, cap, "gpu"))
        THEN Ratio(res, cap, "gpu") ELSE Ratio(res, cap, "cpu")
OtherShare(res, cap) ==
    IF RatioLess(Ratio(res, cap, "cpu"), Ratio(res, cap, "gpu"))
        THEN Ratio(res, cap, "cpu") ELSE Ratio(res, cap, "gpu")
\* resources.CompFairnessRatio(left, leftTotal, right, rightTotal)
CompFairnessRatio(left, leftTotal, right, rightTotal) ==
    LET l1 == DominantShare(left, leftTotal)
        r1 == DominantShare(right, rightTotal)
        l2 == OtherShare(left, leftTotal)
        r2 == OtherShare(right, rightTotal)
    IN  IF RatioLess(r1, l1) THEN 1
        ELSE IF RatioLess(l1, r1) THEN -1
        ELSE IF RatioLess(r2, l2) THEN 1
        ELSE IF RatioLess(l2, r2) THEN -1
        ELSE 0
\* resources.CompFairnessRatioAssumesUnitPartition(left, right)
CompFairnessRatioAssumesUnitPartition(left, right) ==
    CompFairnessRatio(left, Res(1, 1), right, Res(1, 1))

\* the less function of each sort.SliceStable call, l = slice[i], r = slice[j]
QueueLess(l, r) == CompFairnessRatio(l.res, l.cap, r.res, l.cap) < 0
ApplicationFairLess(l, r) ==
    CompFairnessRatio(l.res, globalResource, r.res, globalResource) < 0
ApplicationFifoLess(l, r) == l.time < r.time
NodeLess(l, r) == CompFairnessRatioAssumesUnitPartition(l.res, r.res) > 0
Less(kind, sortType, l, r) ==
    IF kind = "queues" THEN QueueLess(l, r)
    ELSE IF kind = "nodes" THEN NodeLess(l, r)
    ELSE IF sortType = FairSortPolicy THEN ApplicationFairLess(l, r)
    ELSE ApplicationFifoLess(l, r)

\* sort.SliceStable on a slice shorter than one block: insertion sort,
\* element i moved down while less(j, j-1)
RECURSIVE insertDown(_, _, _, _)
insertDown(kind, sortType, s, j) ==
    IF j > 1 /\ Less(kind, sortType, s[j], s[j - 1])
        THEN insertDown(kind, sortType,
                        [s EXCEPT ![j] = s[j - 1], ![j - 1] = s[j]], j - 1)
        ELSE s
RECURSIVE insertionSort(_, _, _, _)
insertionSort(kind, sortType, s, i) ==
    IF i > Len(s) THEN s
    ELSE insertionSort(kind, sortType, insertDown(kind, sortType, s, i), i + 1)
SliceStable(kind, sortType, s) == insertionSort(kind, sortType, s, 2)

NoSortCall == [done |-> FALSE, sortType |-> FairSortPolicy]

\* slices of MaxSortLen elements with different ids, in any order
SortElements(kind) ==
    IF kind = "queues"
        THEN [id : SortIds, res : SortResources, cap : GuaranteedResources, time : {0}]
    ELSE IF kind = "applications"
        THEN [id : SortIds, res : SortResources, cap : {globalResource},
              time : SubmissionTimes]
    ELSE [id : SortIds, res : SortResources, cap : {Res(1, 1)}, time : {0}]
InitSort ==
    /\ sortKind \in {"queues", "applications", "nodes"}
    /\ sortInput \in [SortIds -> SortElements(sortKind)]
    /\ \A i, j \in SortIds : i # j => sortInput[i].id # sortInput[j].id
    /\ sortSlice = sortInput
    /\ sortCall = NoSortCall

\* no slice
IdleSort ==
    /\ sortKind = "queues"
    /\ sortInput = << >>
    /\ sortSlice = << >>
    /\ sortCall = NoSortCall

\* SortQueue(queues, sortType)
SortQueue(sortType) ==
    /\ sortKind = "queues"
    /\ ~sortCall.done
    /\ sortSlice' = IF sortType = FairSortPolicy
                        THEN SliceStable("queues", sortType, sortSlice)
                        ELSE sortSlice
    /\ sortCall' = [done |-> TRUE, sortType |-> sortType]
    /\ UNCHANGED <<sortKind, sortInput>>
    /\ UNCHANGED nonSortVars

\* SortApplications(queues, sortType, globalResource)
SortApplications(sortType) ==
    /\ sortKind = "applications"
    /\ ~sortCall.done
    /\ sortSlice' = IF sortType \in {FairSortPolicy, FifoSortPolicy}
                        THEN SliceStable("applications", sortType, sortSlice)
                        ELSE sortSlice
    /\ sortCall' = [done |-> TRUE, sortType |-> sortType]
    /\ UNCHANGED <<sortKind, sortInput>>
    /\ UNCHANGED nonSortVars

\* SortNodes(nodes, sortType)
SortNodes(sortType) ==
    /\ sortKind = "nodes"
    /\ ~sortCall.done
    /\ sortSlice' = IF sortType = MaxAvailableResources
                        THEN SliceStable("nodes", sortType, sortSlice)
                        ELSE sortSlice
    /\ sortCall' = [done |-> TRUE, sortType |-> sortType]
    /\ UNCHANGED <<sortKind, sortInput>>
    /\ UNCHANGED nonSortVars

NextSort ==
    \/ \E sortType \in SortTypes : SortQueue(sortType)
    \/ \E sortType \in SortTypes : SortApplications(sortType)
    \/ \E sortType \in SortTypes : SortNodes(sortType)

(***************************************************************************)
(* Scheduler configuration: loading a snapshot. A queue name is its text,  *)
(* its length and the kinds of characters in it. A snapshot is a list of    *)
(* partitions, each with a name and the list of its top level queues.      *)
(***************************************************************************)
\* the longest queue name allowed
QueueNameLimit == 64
NameChars == {"alnum", "-", "_"}
QueueName(text, len, chars) == [text |-> text, len |-> len, chars |-> chars]
\* the queue names of TestParseQueueFail and TestLoadQueueConfig
RootName == QueueName("root", 4, {"alnum"})
TestName == QueueName("test", 4, {"alnum"})
ProductionName == QueueName("production", 10, {"alnum"})
LongName ==
    QueueName("this-name-is-longer-than-sixtyfour-characters-and-thus-fails-parsing",
              68, {"alnum", "-"})
DotName == QueueName("no.in-name", 10, {"alnum", "-", "."})
SpecialName == QueueName("special-$-name", 14, {"alnum", "-", "$"})

QueueConfig(name, max) == [name |-> name, max |-> max]
\* the queues lists of a partition
QueueLists ==
    {<< >>,
     <<QueueConfig(RootName, FALSE)>>,
     <<QueueConfig(RootName, TRUE)>>,
     <<QueueConfig(TestName, FALSE)>>,
     <<QueueConfig(TestName, TRUE), QueueConfig(ProductionName, FALSE)>>,
     <<QueueConfig(TestName, FALSE), QueueConfig(TestName, FALSE)>>,
     <<QueueConfig(LongName, FALSE)>>,
     <<QueueConfig(DotName, FALSE)>>,
     <<QueueConfig(SpecialName, FALSE)>>}
ConfigPartitionNames == {"default", "gpu"}
PartitionConfigs == [name : ConfigPartitionNames, queues : QueueLists]
\* one partition, or two, the second with a root queue or without queues
Snapshots ==
    {<<p>> : p \in PartitionConfigs}
        \cup {<<p, q>> : p \in PartitionConfigs,
                         q \in [name : ConfigPartitionNames,
                                queues : {<< >>, <<QueueConfig(RootName, FALSE)>>}]}

NoLoad == [done |-> FALSE, snapshot |-> << >>, err |-> "none", previous |-> << >>]

InitConfig ==
    /\ publishedConfig = << >>
    /\ lastLoad = NoLoad

\* a queue name: 1 to 64 characters, letters, digits, - and _
AnyQueueName(name) == TRUE
ValidQueueName(name) ==
    /\ name.len >= 1
    /\ name.len <= QueueNameLimit
    /\ name.chars \subseteq NameChars
\* the queues of a partition: there are queues, the names are valid, no two
\* siblings have the same name, and a root queue has no max
ValidateQueues(queues) ==
    IF Len(queues) = 0 THEN "partition has no queues"
    ELSE IF \E i \in DOMAIN queues : ~ValidQueueName(queues[i].name)
        THEN "invalid queue name"
    ELSE IF \E i, j \in DOMAIN queues : i # j /\ queues[i].name = queues[j].name
        THEN "duplicate queue name"
    ELSE IF Len(queues) = 1 /\ queues[1].name = RootName /\ queues[1].max
        THEN "root queue must not have a max"
    ELSE "none"
\* the snapshot: partition names are unique, every partition is valid
Validate(snapshot) ==
    IF \E i, j \in DOMAIN snapshot : i # j /\ snapshot[i].name = snapshot[j].name
        THEN "duplicate partition name"
    ELSE IF \E i \in DOMAIN snapshot : ValidateQueues(snapshot[i].queues) # "none"
        THEN LET i == CHOOSE k \in DOMAIN snapshot :
                          /\ ValidateQueues(snapshot[k].queues) # "none"
                          /\ \A m \in DOMAIN snapshot :
                                 ValidateQueues(snapshot[m].queues) # "none" => k <= m
             IN  ValidateQueues(snapshot[i].queues)
    ELSE "none"

\* loading a snapshot: validation, then the swap of the configuration in effect
LoadConfig(snapshot) ==
    /\ LET err == Validate(snapshot)
       IN  /\ publishedConfig' = IF err = "none" THEN snapshot ELSE publishedConfig
           /\ lastLoad' = [done |-> TRUE, snapshot |-> snapshot, err |-> err,
                           previous |-> publishedConfig]
    /\ UNCHANGED nonConfigVars

NextConfig == \E snapshot \in Snapshots : LoadConfig(snapshot)

(***************************************************************************)
(* The locks of the scheduling queues. Goroutines call the operations of    *)
(* SchedulingQueue on the queues of one tree (all of QueuePaths); a step is *)
(* the taking of one lock, or the work done under the locks held up to the  *)
(* release of the lock taken last.                                          *)
(***************************************************************************)
LockThreads == {1, 2}
\* pending resource asked for at most
MaxPendingRes == 1

Children(q) == {c \in QueuePaths \ {Root} : Parent(c) = q}
LockLeaves == {q \in QueuePaths : Children(q) = {}}

Idling == [op |-> "idle", target |-> Root, pc |-> "idle", next |-> Root,
           held |-> << >>, visited |-> {}]
QueueOps == {"IncPendingResource", "DecPendingResource", "AddSchedulingApplication",
             "RemoveSchedulingApplication", "RemoveQueue", "updateSchedulingQueueInfo",
             "cleanQueues"}

InitLocks ==
    /\ sqLock = [q \in QueuePaths |-> [writer |-> 0, readers |-> {}]]
    /\ goroutine = [t \in LockThreads |-> Idling]
    /\ pendingResource = [q \in QueuePaths |-> 0]
    /\ lastAccess = {}

\* sync.RWMutex: Lock waits for the writer and the readers, RLock for the writer
CanLock(q) == sqLock[q].writer = 0 /\ sqLock[q].readers = {}
CanRLock(q) == sqLock[q].writer = 0
Lock(t, q) == [sqLock EXCEPT ![q].writer = t]
Unlock(t, q) == [sqLock EXCEPT ![q].writer = 0]
RLock(t, q) == [sqLock EXCEPT ![q].readers = @ \cup {t}]
RUnlock(t, q) == [sqLock EXCEPT ![q].readers = @ \ {t}]
HoldsLock(t, q) == sqLock[q].writer = t
HoldsRLock(t, q) == t \in sqLock[q].readers

\* a read or a write of a map of queue q by goroutine t: whether t holds the
\* queue's lock (the write lock for a write), and who else holds its write lock
Access(t, q, field, write, holdsRead, holdsWrite) ==
    [thread |-> t, queue |-> q, field |-> field, write |-> write,
     locked |-> IF write THEN holdsWrite ELSE (holdsRead \/ holdsWrite),
     writer |-> IF holdsWrite THEN 0 ELSE sqLock[q].writer]

Top(t) == goroutine[t].held[Len(goroutine[t].held)]
Pop(h) == SubSeq(h, 1, Len(h) - 1)

\* a goroutine calls an operation of queue q
Call(t, op, q) ==
    /\ goroutine[t].op = "idle"
    /\ op \in {"AddSchedulingApplication", "RemoveSchedulingApplication"} => q \in LockLeaves \ {Root}
    /\ op = "IncPendingResource" => \A a \in QueuePaths : pendingResource[a] < MaxPendingRes
    /\ op \in {"DecPendingResource", "RemoveSchedulingApplication"} =>
           \A a \in QueuePaths : pendingResource[a] > 0
    /\ goroutine' = [goroutine EXCEPT ![t] = [Idling EXCEPT !.op = op, !.target = q,
                                                          !.pc = "lock", !.next = q]]
    /\ lastAccess' = {}
    /\ UNCHANGED <<sqLock, pendingResource>>
    /\ UNCHANGED nonLockVars

\* IncPendingResource / DecPendingResource: sq.lock.Lock(), then the call of
\* the parent's IncPendingResource / DecPendingResource
PendingLock(t) ==
    LET g == goroutine[t]
    IN  /\ g.pc = "lock"
        /\ \/ g.op \in {"IncPendingResource", "DecPendingResource"}
           \/ g.op = "RemoveSchedulingApplication" /\ g.held # << >>
        /\ CanLock(g.next)
        /\ sqLock' = Lock(t, g.next)
        /\ goroutine' = [goroutine EXCEPT ![t].held = Append(g.held, g.next),
                                          ![t].pc = IF g.next = Root THEN "unlock" ELSE "lock",
                                          ![t].next = IF g.next = Root THEN Root
                                                      ELSE Parent(g.next)]
        /\ lastAccess' = {}
        /\ UNCHANGED pendingResource
        /\ UNCHANGED nonLockVars

\* IncPendingResource / DecPendingResource after the parent's call returned:
\* the queue's pendingResource is set and the deferred Unlock runs
PendingUnlock(t) ==
    LET g == goroutine[t]
    IN  /\ g.pc = "unlock"
        /\ \/ g.op \in {"IncPendingResource", "DecPendingResource"}
           \/ g.op = "RemoveSchedulingApplication" /\ Len(g.held) > 1
        /\ pendingResource' =
               [pendingResource EXCEPT ![Top(t)] =
                    IF g.op = "IncPendingResource" THEN @ + 1 ELSE @ - 1]
        /\ sqLock' = Unlock(t, Top(t))
        /\ goroutine' = [goroutine EXCEPT ![t] =
                             IF Len(g.held) = 1 THEN Idling
                             ELSE [g EXCEPT !.held = Pop(g.held)]]
        /\ lastAccess' = {}
        /\ UNCHANGED nonLockVars

\* AddSchedulingApplication: sq.lock.Lock()
AddSchedulingApplicationLock(t) ==
    LET g == goroutine[t]
    IN  /\ g.pc = "lock"
        /\ g.op = "AddSchedulingApplication"
        /\ CanLock(g.target)
        /\ sqLock' = Lock(t, g.target)
        /\ goroutine' = [goroutine EXCEPT ![t].held = <<g.target>>, ![t].pc = "unlock"]
        /\ lastAccess' = {}
        /\ UNCHANGED pendingResource
        /\ UNCHANGED nonLockVars

\* AddSchedulingApplication: the write of sq.applications and the Unlock
AddSchedulingApplicationUnlock(t) ==
    LET g == goroutine[t]
    IN  /\ g.pc = "unlock"
        /\ g.op = "AddSchedulingApplication"
        /\ lastAccess' = {Access(t, g.target, "applications", TRUE,
                                 HoldsRLock(t, g.target), HoldsLock(t, g.target))}
        /\ sqLock' = Unlock(t, g.target)
        /\ goroutine' = [goroutine EXCEPT ![t] = Idling]
        /\ UNCHANGED pendingResource
        /\ UNCHANGED nonLockVars

\* RemoveSchedulingApplication: sq.lock.Lock(); with pending resource left
\* (totalPending not zero) the queue's pendingResource is lowered and the
\* parent's DecPendingResource is called
RemoveSchedulingApplicationLock(t, totalPendingIsZero) ==
    LET g == goroutine[t]
    IN  /\ g.pc = "lock"
        /\ g.op = "RemoveSchedulingApplication"
        /\ g.held = << >>
        /\ CanLock(g.target)
        /\ sqLock' = Lock(t, g.target)
        /\ pendingResource' = IF totalPendingIsZero THEN pendingResource
                              ELSE [pendingResource EXCEPT ![g.target] = @ - 1]
        /\ goroutine' = [goroutine EXCEPT ![t].held = <<g.target>>,
                                          ![t].pc = IF totalPendingIsZero THEN "unlock" ELSE "lock",
                                          ![t].next = Parent(g.target)]
        /\ lastAccess' = {}
        /\ UNCHANGED nonLockVars

\* RemoveSchedulingApplication: the delete from sq.applications and the Unlock
RemoveSchedulingApplicationUnlock(t) ==
    LET g == goroutine[t]
    IN  /\ g.pc = "unlock"
        /\ g.op = "RemoveSchedulingApplication"
        /\ Len(g.held) = 1
        /\ lastAccess' = {Access(t, g.target, "applications", TRUE,
                                 HoldsRLock(t, g.target), HoldsLock(t, g.target))}
        /\ sqLock' = Unlock(t, g.target)
        /\ goroutine' = [goroutine EXCEPT ![t] = Idling]
        /\ UNCHANGED pendingResource
        /\ UNCHANGED nonLockVars

\* RemoveQueue: sq.lock.RLock() and the checks; removable: the queue is not
\* managed and running and has neither children nor applications
RemoveQueueRLock(t, removable) ==
    LET g == goroutine[t]
    IN  /\ g.pc = "lock"
        /\ g.op = "RemoveQueue"
        /\ g.held = << >>
        /\ removable => g.target # Root
        /\ CanRLock(g.target)
        /\ sqLock' = RLock(t, g.target)
        /\ lastAccess' = {Access(t, g.target, f, FALSE, TRUE, FALSE) :
                              f \in {"childrenQueues", "applications"}}
        /\ goroutine' = [goroutine EXCEPT ![t].held = <<g.target>>,
                                          ![t].pc = IF removable THEN "lock" ELSE "unlock",
                                          ![t].next = IF removable THEN Parent(g.target)
                                                      ELSE Root]
        /\ UNCHANGED pendingResource
        /\ UNCHANGED nonLockVars

\* RemoveQueue: sq.parent.removeChildQueue takes the parent's lock
removeChildQueueLock(t) ==
    LET g == goroutine[t]
    IN  /\ g.pc = "lock"
        /\ g.op = "RemoveQueue"
        /\ Len(g.held) = 1
        /\ CanLock(g.next)
        /\ sqLock' = Lock(t, g.next)
        /\ goroutine' = [goroutine EXCEPT ![t].held = Append(g.held, g.next),
                                          ![t].pc = "unlock"]
        /\ lastAccess' = {}
        /\ UNCHANGED pendingResource
        /\ UNCHANGED nonLockVars

\* RemoveQueue: removeChildQueue deletes from the parent's childrenQueues and
\* unlocks the parent; then the deferred RUnlock of the queue
RemoveQueueUnlock(t) ==
    LET g == goroutine[t]
    IN  /\ g.pc = "unlock"
        /\ g.op = "RemoveQueue"
        /\ IF Len(g.held) = 2
               THEN /\ lastAccess' = {Access(t, Top(t), "childrenQueues", TRUE,
                                            HoldsRLock(t, Top(t)), HoldsLock(t, Top(t)))}
                    /\ sqLock' = Unlock(t, Top(t))
                    /\ goroutine' = [goroutine EXCEPT ![t].held = Pop(g.held)]
               ELSE /\ lastAccess' = {}
                    /\ sqLock' = RUnlock(t, g.target)
                    /\ goroutine' = [goroutine EXCEPT ![t] = Idling]
        /\ UNCHANGED pendingResource
        /\ UNCHANGED nonLockVars

\* updateSchedulingQueueInfo: sq.lock.Lock()
updateSchedulingQueueInfoLock(t) ==
    LET g == goroutine[t]
    IN  /\ g.pc = "lock"
        /\ g.op = "updateSchedulingQueueInfo"
        /\ CanLock(g.next)
        /\ sqLock' = Lock(t, g.next)
        /\ goroutine' = [goroutine EXCEPT ![t].held = Append(g.held, g.next),
                                          ![t].pc = "walk"]
        /\ lastAccess' = {}
        /\ UNCHANGED pendingResource
        /\ UNCHANGED nonLockVars

\* updateSchedulingQueueInfo: the next child of info is looked up in
\* sq.childrenQueues and its updateSchedulingQueueInfo is called
updateSchedulingQueueInfoChild(t, child) ==
    LET g == goroutine[t]
    IN  /\ g.pc = "walk"
        /\ child \in Children(Top(t)) \ g.visited
        /\ lastAccess' = {Access(t, Top(t), "childrenQueues", FALSE,
                                 HoldsRLock(t, Top(t)), HoldsLock(t, Top(t)))}
        /\ goroutine' = [goroutine EXCEPT ![t].pc = "lock", ![t].next = child]
        /\ UNCHANGED <<sqLock, pendingResource>>
        /\ UNCHANGED nonLockVars

\* updateSchedulingQueueInfo: all children done, the deferred Unlock
updateSchedulingQueueInfoUnlock(t) ==
    LET g == goroutine[t]
    IN  /\ g.pc = "walk"
        /\ Children(Top(t)) \subseteq g.visited
        /\ sqLock' = Unlock(t, Top(t))
        /\ goroutine' = [goroutine EXCEPT ![t] =
                             IF Len(g.held) = 1 THEN Idling
                             ELSE [g EXCEPT !.held = Pop(g.held),
                                            !.visited = @ \cup {Top(t)}]]
        /\ lastAccess' = {}
        /\ UNCHANGED pendingResource
        /\ UNCHANGED nonLockVars

\* cleanQueues of one queue: GetCopyOfChildren reads childrenQueues under the
\* read lock (the children are cleaned by calls of their own)
cleanQueuesChildren(t) ==
    LET g == goroutine[t]
    IN  /\ g.pc = "lock"
        /\ g.op = "cleanQueues"
        /\ CanRLock(g.target)
        /\ lastAccess' = {Access(t, g.target, "childrenQueues", FALSE, TRUE, FALSE)}
        /\ goroutine' = [goroutine EXCEPT ![t].pc = "check"]
        /\ UNCHANGED <<sqLock, pendingResource>>
        /\ UNCHANGED nonLockVars

\* cleanQueues of one queue: for a draining or unmanaged queue
\* len(schedulingQueue.applications) is read, and a queue found empty and
\* removed from the cache goes on to schedulingQueue.RemoveQueue()
cleanQueuesCheck(t, drainingOrUnmanaged, remove) ==
    LET g == goroutine[t]
    IN  /\ g.pc = "check"
        /\ remove => drainingOrUnmanaged
        /\ lastAccess' = IF drainingOrUnmanaged
                             THEN {Access(t, g.target, "applications", FALSE,
                                          HoldsRLock(t, g.target), HoldsLock(t, g.target))}
                             ELSE {}
        /\ goroutine' = [goroutine EXCEPT ![t] =
                             IF remove THEN [g EXCEPT !.op = "RemoveQueue", !.pc = "lock",
                                                      !.next = g.target]
                             ELSE Idling]
        /\ UNCHANGED <<sqLock, pendingResource>>
        /\ UNCHANGED nonLockVars

NextLocks ==
    \E t \in LockThreads :
        \/ \E op \in QueueOps, q \in QueuePaths : Call(t, op, q)
        \/ PendingLock(t)
        \/ PendingUnlock(t)
        \/ AddSchedulingApplicationLock(t)
        \/ AddSchedulingApplicationUnlock(t)
        \/ \E totalPendingIsZero \in BOOLEAN :
               RemoveSchedulingApplicationLock(t, totalPendingIsZero)
        \/ RemoveSchedulingApplicationUnlock(t)
        \/ \E removable \in BOOLEAN : RemoveQueueRLock(t, removable)
        \/ removeChildQueueLock(t)
        \/ RemoveQueueUnlock(t)
        \/ updateSchedulingQueueInfoLock(t)
        \/ \E child \in QueuePaths : updateSchedulingQueueInfoChild(t, child)
        \/ updateSchedulingQueueInfoUnlock(t)
        \/ cleanQueuesChildren(t)
        \/ \E drainingOrUnmanaged, remove \in BOOLEAN :
               cleanQueuesCheck(t, drainingOrUnmanaged, remove)

(***************************************************************************)
(* The lock of the cluster scheduling context. Goroutines call the methods  *)
(* of ClusterSchedulingContext; a step takes the lock, or does the method's *)
(* work on csc.partitions and releases the lock (the deferred unlock).      *)
(***************************************************************************)
CscThreads == {1, 2}
CscPartitionNames == {"[rm1]default", "[rm2]default"}
\* the methods that take the lock for reading and for writing
CscReadLockMethods == {"getPartitionMapClone", "GetSchedulingApplication",
                       "GetSchedulingQueue", "removeSchedulingPartition"}
CscWriteLockMethods == {"AddSchedulingApplication", "RemoveSchedulingApplication",
                        "updateSchedulingPartitions", "RemoveSchedulingPartitionsByRMId",
                        "deleteSchedulingPartitions"}
CscOutside == [method |-> "none", name |-> "", pc |-> "outside"]

InitCscLock ==
    /\ cscLock = [writer |-> 0, readers |-> {}]
    /\ cscCaller = [t \in CscThreads |-> CscOutside]
    /\ cscPartitions = {}
    /\ cscAccess = {}

\* a goroutine calls a method of the context; removeSchedulingPartition is the
\* partition manager's callback
CscCall(t, method, name) ==
    /\ cscCaller[t].pc = "outside"
    /\ cscCaller' = [cscCaller EXCEPT ![t] = [method |-> method, name |-> name,
                                               pc |-> "lock"]]
    /\ cscAccess' = {}
    /\ UNCHANGED <<cscLock, cscPartitions>>
    /\ UNCHANGED nonCscLockVars

\* csc.lock.RLock()
CscRLock(t) ==
    /\ cscCaller[t].pc = "lock"
    /\ cscCaller[t].method \in CscReadLockMethods
    /\ cscLock.writer = 0
    /\ cscLock' = [cscLock EXCEPT !.readers = @ \cup {t}]
    /\ cscCaller' = [cscCaller EXCEPT ![t].pc = "locked"]
    /\ cscAccess' = {}
    /\ UNCHANGED cscPartitions
    /\ UNCHANGED nonCscLockVars

\* csc.lock.Lock()
CscLock(t) ==
    /\ cscCaller[t].pc = "lock"
    /\ cscCaller[t].method \in CscWriteLockMethods
    /\ cscLock.writer = 0
    /\ cscLock.readers = {}
    /\ cscLock' = [cscLock EXCEPT !.writer = t]
    /\ cscCaller' = [cscCaller EXCEPT ![t].pc = "locked"]
    /\ cscAccess' = {}
    /\ UNCHANGED cscPartitions
    /\ UNCHANGED nonCscLockVars

\* a read or write of csc.partitions by goroutine t: the mode in which t holds
\* the lock and the other goroutines inside a method under the lock
CscAccessOf(t, write) ==
    [thread |-> t, method |-> cscCaller[t].method, write |-> write,
     mode |-> IF cscLock.writer = t THEN "write"
              ELSE IF t \in cscLock.readers THEN "read" ELSE "none",
     others |-> (cscLock.readers \cup ({cscLock.writer} \ {0})) \ {t}]

\* the keys of the map after the method's work
CscPartitionsAfter(method, name) ==
    IF method = "updateSchedulingPartitions" THEN cscPartitions \cup {name}
    ELSE IF method = "removeSchedulingPartition" THEN cscPartitions \ {name}
    ELSE IF method = "RemoveSchedulingPartitionsByRMId"
        THEN {n \in cscPartitions : RmIdOf(n) # RmIdOf(name)}
    ELSE cscPartitions
\* the method inserts into or deletes from the map
CscWrites(method, name) ==
    \/ method = "updateSchedulingPartitions" /\ name \notin cscPartitions
    \/ method = "removeSchedulingPartition"
    \/ method = "RemoveSchedulingPartitionsByRMId"
           /\ \E n \in cscPartitions : RmIdOf(n) = RmIdOf(name)

\* the work of the method on csc.partitions and the deferred unlock
CscWork(t) ==
    LET c == cscCaller[t]
    IN  /\ c.pc = "locked"
        /\ cscPartitions' = CscPartitionsAfter(c.method, c.name)
        /\ cscAccess' = {CscAccessOf(t, FALSE)} \cup
                            (IF CscWrites(c.method, c.name) THEN {CscAccessOf(t, TRUE)}
                             ELSE {})
        /\ cscLock' = [writer |-> IF cscLock.writer = t THEN 0 ELSE cscLock.writer,
                       readers |-> cscLock.readers \ {t}]
        /\ cscCaller' = [cscCaller EXCEPT ![t] = CscOutside]
        /\ UNCHANGED nonCscLockVars

NextCscLock ==
    \E t \in CscThreads :
        \/ \E method \in CscReadLockMethods \cup CscWriteLockMethods,
              name \in CscPartitionNames : CscCall(t, method, name)
        \/ CscRLock(t)
        \/ CscLock(t)
        \/ CscWork(t)

(***************************************************************************)
(* Headroom shortages: initHeadroomShortages and headroomShortageUpdate on  *)
(* the queues of a preemption partition context.                            *)
(***************************************************************************)
\* max, allocating and marked-preempted resource of the queues root and
\* root.high, the resource asked for and the resource of a victim allocation
HeadroomMaxResources == {Zero, Res(1, 1), Res(2, 2)}
HeadroomAllocatingResources == {Zero, Res(1, 2)}
HeadroomMarkedResources == {Zero, Res(0, 1)}
HeadroomAskResources == {Res(1, 0), Res(0, 1), Res(2, 1)}
VictimResources == {Res(1, 0), Res(0, 1), Res(2, 2)}

NoHeadroomCall == [op |-> "none", queue |-> "nil", resource |-> Zero, before |-> << >>,
                   ret |-> FALSE]

InitHeadroom ==
    /\ candidate = [queue |-> "root.high", resource |-> Zero, ctxNil |-> TRUE]
    /\ \E qs \in [{"root", "root.high"} ->
                      [max : HeadroomMaxResources,
                       allocating : HeadroomAllocatingResources,
                       markedPreempted : HeadroomMarkedResources,
                       preemptable : {Zero}]] :
           preemptQueues = [q \in PQueues |->
               IF q \in DOMAIN qs THEN qs[q]
               ELSE [max |-> partitionTotalResource, allocating |-> Zero,
                     markedPreempted |-> Zero, preemptable |-> Zero]]
    /\ preemptNodes = [n \in PNodes |->
           [allocating |-> Zero, preempting |-> Zero, available |-> Zero]]
    /\ nodeAllocations = [a \in AllocIds |->
           [node |-> 1, queue |-> "root.low", resource |-> Zero]]
    /\ preemptRun = NoRun
    /\ preemptResult = NoResult
    /\ preemptBefore = [queues |-> preemptQueues, nodes |-> preemptNodes]
    /\ queueHeadroomShortages = << >>
    /\ headroomCall = NoHeadroomCall

\* no preemption attempt
IdleHeadroom ==
    /\ queueHeadroomShortages = << >>
    /\ headroomCall = NoHeadroomCall

\* headroomShortages := initHeadroomShortages(preemptorQueue, candidate resource)
CallInitHeadroomShortages(preemptor, res) ==
    /\ headroomCall.op = "none"
    /\ queueHeadroomShortages' = initHeadroomShortagesMap(preemptor, res)
    /\ headroomCall' = [op |-> "initHeadroomShortages", queue |-> preemptor,
                        resource |-> res, before |-> << >>, ret |-> FALSE]
    /\ UNCHANGED preemptVars
    /\ UNCHANGED nonHeadroomVars

\* headroomShortageUpdate(preemptor, preemptee, allocationResource,
\* queueHeadroomShortages)
CallHeadroomShortageUpdate(preemptee, res) ==
    /\ headroomCall.op # "none"
    /\ LET r == headroomShortageUpdateMap(preemptee, res, queueHeadroomShortages)
       IN  /\ queueHeadroomShortages' = r.shortages
           /\ headroomCall' = [op |-> "headroomShortageUpdate", queue |-> preemptee,
                               resource |-> res, before |-> queueHeadroomShortages,
                               ret |-> r.positive]
    /\ UNCHANGED preemptVars
    /\ UNCHANGED nonHeadroomVars

NextHeadroom ==
    \/ \E preemptor \in PQueues, res \in HeadroomAskResources :
           CallInitHeadroomShortages(preemptor, res)
    \/ \E preemptee \in PQueues, res \in VictimResources :
           CallHeadroomShortageUpdate(preemptee, res)

(***************************************************************************)
(* The pending resource of the scheduling queues. Goroutines call           *)
(* IncPendingResource, DecPendingResource and RemoveSchedulingApplication   *)
(* on the leaf queues of the tree of QueuePaths; a call locks the queue,    *)
(* calls its parent and, back from the parent, sets the queue's             *)
(* pendingResource under the queue's lock.                                  *)
(***************************************************************************)
PendingThreads == {1, 2}
\* pending-resource operations called at most
MaxPendingCalls == 3
PendingOps == {"IncPendingResource", "DecPendingResource", "RemoveSchedulingApplication"}
PendingLeaves == {q \in QueuePaths \ {Root} : \A c \in QueuePaths : c = Root \/ Parent(c) # q}
PendingDeltas == {Res(1, 0), Res(1, 2)}
\* app.Requests.GetPendingResource() of the application removed
TotalPendings == PendingDeltas \cup {Zero}

PendingIdle == [op |-> "idle", target |-> Root, delta |-> Zero, pc |-> "idle",
                next |-> Root, held |-> << >>, changes |-> << >>]
NoPendingCall == [done |-> FALSE, op |-> "idle", target |-> Root, delta |-> Zero,
                  changes |-> << >>]

InitPending ==
    /\ queuePending = [q \in QueuePaths |-> Zero]
    /\ pendingCaller = [t \in PendingThreads |-> PendingIdle]
    /\ pendingCalls = 0
    /\ pendingDone = NoPendingCall

\* sq.parent != nil
HasNoParent(q) == FALSE
HasParent(q) == q # Root

\* resources.Add(sq.pendingResource, delta)
IncPending(pending, delta) == ResAdd(pending, delta)

\* resources.Sub(sq.pendingResource, delta)
DecPendingClamped(pending, delta) == SubEliminateNegative(pending, delta)
DecPending(pending, delta) == ResSub(pending, delta)

\* sq.lock is held by a goroutine
PendingLocked(q) ==
    \E t \in PendingThreads :
        \E i \in 1..Len(pendingCaller[t].held) : pendingCaller[t].held[i] = q

PendingChange(q, after) == [queue |-> q, before |-> queuePending[q], after |-> after]

\* a goroutine calls an operation on a leaf queue
PendingCall(t, op, q, delta) ==
    /\ pendingCaller[t].op = "idle"
    /\ pendingCalls < MaxPendingCalls
    /\ op = "RemoveSchedulingApplication" \/ delta # Zero
    /\ pendingCaller' = [pendingCaller EXCEPT ![t] =
                             [PendingIdle EXCEPT !.op = op, !.target = q, !.delta = delta,
                                                 !.pc = "lock", !.next = q]]
    /\ pendingCalls' = pendingCalls + 1
    /\ pendingDone' = NoPendingCall
    /\ UNCHANGED queuePending
    /\ UNCHANGED nonPendingVars

\* IncPendingResource / DecPendingResource: sq.lock.Lock(), then the call of
\* the parent's IncPendingResource / DecPendingResource if there is a parent
PendingResourceLock(t) ==
    LET g == pendingCaller[t]
    IN  /\ g.pc = "lock"
        /\ \/ g.op \in {"IncPendingResource", "DecPendingResource"}
           \/ g.op = "RemoveSchedulingApplication" /\ g.held # << >>
        /\ ~PendingLocked(g.next)
        /\ pendingCaller' =
               [pendingCaller EXCEPT ![t].held = Append(g.held, g.next),
                                     ![t].pc = IF HasParent(g.next) THEN "lock" ELSE "unlock",
                                     ![t].next = IF HasParent(g.next) THEN Parent(g.next)
                                                 ELSE Root]
        /\ pendingDone' = NoPendingCall
        /\ UNCHANGED <<queuePending, pendingCalls>>
        /\ UNCHANGED nonPendingVars

\* IncPendingResource / DecPendingResource after the parent's call returned:
\* sq.pendingResource is set and the deferred Unlock runs
PendingResourceSet(t) ==
    LET g == pendingCaller[t]
        q == g.held[Len(g.held)]
        after == IF g.op = "IncPendingResource" THEN IncPending(queuePending[q], g.delta)
                 ELSE DecPending(queuePending[q], g.delta)
        changes == Append(g.changes, PendingChange(q, after))
        returns == Len(g.held) = 1
    IN  /\ g.pc = "unlock"
        /\ \/ g.op \in {"IncPendingResource", "DecPendingResource"}
           \/ g.op = "RemoveSchedulingApplication" /\ Len(g.held) > 1
        /\ queuePending' = [queuePending EXCEPT ![q] = after]
        /\ pendingCaller' =
               [pendingCaller EXCEPT ![t] =
                    IF returns THEN PendingIdle
                    ELSE [g EXCEPT !.held = SubSeq(g.held, 1, Len(g.held) - 1),
                                   !.changes = changes]]
        /\ pendingDone' = IF returns
                              THEN [done |-> TRUE, op |-> g.op, target |-> g.target,
                                    delta |-> g.delta, changes |-> changes]
                              ELSE NoPendingCall
        /\ UNCHANGED pendingCalls
        /\ UNCHANGED nonPendingVars

\* RemoveSchedulingApplication: sq.lock.Lock(); with totalPending not zero
\* sq.pendingResource is lowered and sq.parent.DecPendingResource is called
RemoveSchedulingApplicationPending(t) ==
    LET g == pendingCaller[t]
        after == ResSub(queuePending[g.target], g.delta)
        isZero == g.delta = Zero
    IN  /\ g.pc = "lock"
        /\ g.op = "RemoveSchedulingApplication"
        /\ g.held = << >>
        /\ ~PendingLocked(g.target)
        /\ queuePending' = IF isZero THEN queuePending
                           ELSE [queuePending EXCEPT ![g.target] = after]
        /\ pendingCaller' =
               [pendingCaller EXCEPT ![t].held = <<g.target>>,
                                     ![t].pc = IF isZero THEN "unlock" ELSE "lock",
                                     ![t].next = Parent(g.target),
                                     ![t].changes = IF isZero THEN << >>
                                                    ELSE <<PendingChange(g.target, after)>>]
        /\ pendingDone' = NoPendingCall
        /\ UNCHANGED pendingCalls
        /\ UNCHANGED nonPendingVars

\* RemoveSchedulingApplication: the delete from sq.applications and the
\* deferred Unlock
RemoveSchedulingApplicationDelete(t) ==
    LET g == pendingCaller[t]
    IN  /\ g.pc = "unlock"
        /\ g.op = "RemoveSchedulingApplication"
        /\ Len(g.held) = 1
        /\ pendingCaller' = [pendingCaller EXCEPT ![t] = PendingIdle]
        /\ pendingDone' = [done |-> TRUE, op |-> g.op, target |-> g.target,
                           delta |-> g.delta, changes |-> g.changes]
        /\ UNCHANGED <<queuePending, pendingCalls>>
        /\ UNCHANGED nonPendingVars

NextPending ==
    \E t \in PendingThreads :
        \/ \E op \in PendingOps, q \in PendingLeaves, delta \in TotalPendings :
               PendingCall(t, op, q, delta)
        \/ PendingResourceLock(t)
        \/ PendingResourceSet(t)
        \/ RemoveSchedulingApplicationPending(t)
        \/ RemoveSchedulingApplicationDelete(t)

(***************************************************************************)
(* The task of the Kubernetes shim (yunikorn-k8shim, package cache): one    *)
(* Task, its state machine (fsm.FSM), the goroutines its callbacks start    *)
(* and the events it hands to the dispatcher. An event reaches the task     *)
(* through Task.handle, either from outside or from the dispatcher.         *)
(***************************************************************************)
TaskStates == {"Pending", "Scheduling", "Allocated", "Bound", "Completed", "Killing",
               "Killed", "Rejected", "Failed"}
TaskEvents == {"SubmitTask", "TaskAllocated", "TaskBound", "CompleteTask", "KillTask",
               "TaskKilled", "TaskRejected", "TaskFail"}
\* an event the state machine of the task has no transition for
OtherEvents == {"RunApplication"}
\* the allocation uuid the scheduler core sends with TaskAllocated
AllocationUuids == {"uuid-1"}

\* fsm.Events of createTaskInternal: the source states of an event
SrcWithKillAnywhere(event) == TaskStates
Src(event) ==
    CASE event = "SubmitTask" -> {"Pending"}
      [] event = "TaskAllocated" -> {"Scheduling"}
      [] event = "TaskBound" -> {"Allocated"}
      [] event = "CompleteTask" -> {"Bound"}
      [] event = "KillTask" -> {"Pending", "Scheduling", "Allocated", "Bound"}
      [] event = "TaskKilled" -> {"Killing"}
      [] event = "TaskRejected" -> {"Pending", "Scheduling"}
      [] event = "TaskFail" -> {"Rejected", "Allocated"}

\* fsm.Events of createTaskInternal: the destination state of an event
Dst(event) ==
    CASE event = "SubmitTask" -> "Scheduling"
      [] event = "TaskAllocated" -> "Allocated"
      [] event = "TaskBound" -> "Bound"
      [] event = "CompleteTask" -> "Completed"
      [] event = "KillTask" -> "Killing"
      [] event = "TaskKilled" -> "Killed"
      [] event = "TaskRejected" -> "Rejected"
      [] event = "TaskFail" -> "Failed"

\* task.sm.Event: the state after the event and the error returned
Event(current, event) ==
    IF event \notin TaskEvents THEN [state |-> current, err |-> "unknown event"]
    ELSE IF current \notin Src(event) THEN [state |-> current, err |-> "invalid event"]
    ELSE IF Dst(event) = current THEN [state |-> current, err |-> "no transition"]
    ELSE [state |-> Dst(event), err |-> "none"]

\* Task.handle: the error it returns for the error of task.sm.Event
handleError(err) == IF err # "none" /\ err # "no transition" THEN err ELSE "none"

TaskEvent(name, argsOk, uuid) == [event |-> name, argsOk |-> argsOk, uuid |-> uuid]
\* NewFailTaskEvent(applicationId, taskId, message)
NewFailTaskEvent == TaskEvent("TaskFail", TRUE, "")
\* NewBindTaskEvent(applicationId, taskId)
NewBindTaskEvent == TaskEvent("TaskBound", TRUE, "")

NoBind == [pc |-> "none", argsOk |-> TRUE, uuid |-> "", bound |-> FALSE, dispatched |-> << >>]
NoRelease == [pc |-> "none", uuid |-> ""]
NoHandle == [done |-> FALSE, event |-> "", before |-> "", after |-> "", err |-> "none"]

\* createTaskInternal; the scheduler api is nil in some tests only
InitTask ==
    /\ task \in [state : {"Pending"}, allocationUuid : {""}, schedulerApi : BOOLEAN]
    /\ taskEvents = << >>
    /\ taskRoutines = [bind |-> NoBind, release |-> NoRelease]
    /\ lastHandle = NoHandle

\* the state callbacks of createTaskInternal: postTaskAllocated starts the
\* goroutine that binds the pod, postTaskCompleted and postTaskFailed call
\* releaseAllocation, which starts the goroutine that sends the release
EnterState(state, te) ==
    [bind |-> IF state = "Allocated"
                  THEN [NoBind EXCEPT !.pc = "running", !.argsOk = te.argsOk,
                                      !.uuid = te.uuid]
                  ELSE taskRoutines.bind,
     release |-> IF state \in {"Completed", "Failed"}
                     THEN [NoRelease EXCEPT !.pc = "started"]
                     ELSE taskRoutines.release]

\* the events the callbacks hand to the dispatcher: postTaskRejected on
\* entering Rejected, handleFailEvent after TaskFail when the arguments of
\* the event are not one string
CallbackEvents(state, te) ==
    (IF state = "Rejected" THEN <<NewFailTaskEvent>> ELSE << >>)
        \o (IF te.event = "TaskFail" /\ ~te.argsOk THEN <<NewFailTaskEvent>> ELSE << >>)

\* Task.handle(te), the callbacks of the transition included; queue is what
\* the dispatcher holds apart from te
handle(te, queue) ==
    LET result == Event(task.state, te.event)
        moved == result.err = "none"
    IN  /\ task' = [task EXCEPT !.state = result.state]
        /\ taskRoutines' = IF moved THEN EnterState(result.state, te) ELSE taskRoutines
        /\ taskEvents' = IF moved THEN queue \o CallbackEvents(result.state, te) ELSE queue
        /\ lastHandle' = [done |-> TRUE, event |-> te.event, before |-> task.state,
                          after |-> result.state, err |-> handleError(result.err)]
        /\ UNCHANGED nonTaskVars

\* an event from outside the task: the application, the scheduler callback
HandleEvent(name, argsOk, uuid) ==
    /\ name \notin {"TaskAllocated", "TaskFail"} => argsOk
    /\ (name = "TaskAllocated" /\ argsOk) <=> uuid # ""
    /\ handle(TaskEvent(name, argsOk, uuid), taskEvents)

\* the dispatcher hands the task the oldest event the task dispatched
DispatchedEvent ==
    /\ taskEvents # << >>
    /\ handle(Head(taskEvents), Tail(taskEvents))

\* setAllocated, for a pod that names its node: the state is set without an
\* event and without a callback
setAllocated ==
    /\ task.state = "Pending"
    /\ task' = [task EXCEPT !.state = "Allocated"]
    /\ lastHandle' = NoHandle
    /\ UNCHANGED <<taskEvents, taskRoutines>>
    /\ UNCHANGED nonTaskVars

\* the events the goroutine of postTaskAllocated dispatches: with the
\* arguments not two strings a fail event and return; with a bind that failed
\* a fail event and return; else a bind event
FollowUpWithoutReturn(argsOk, bindOk) ==
    IF ~argsOk THEN <<NewFailTaskEvent>>
    ELSE IF bindOk THEN <<NewBindTaskEvent>>
    ELSE <<NewFailTaskEvent, NewBindTaskEvent>>
FollowUp(argsOk, bindOk) ==
    IF ~argsOk THEN <<NewFailTaskEvent>>
    ELSE IF bindOk THEN <<NewBindTaskEvent>>
    ELSE <<NewFailTaskEvent>>

\* the goroutine of postTaskAllocated, under task.lock: with valid arguments
\* the uuid is kept in task.allocationUuid and the pod is bound
BindPod(bindOk) ==
    LET b == taskRoutines.bind
        follow == FollowUp(b.argsOk, bindOk)
    IN  /\ b.pc = "running"
        /\ task' = IF b.argsOk THEN [task EXCEPT !.allocationUuid = b.uuid] ELSE task
        /\ taskEvents' = taskEvents \o follow
        /\ taskRoutines' = [taskRoutines EXCEPT
                                !.bind.pc = "done", !.bind.bound = b.argsOk /\ bindOk,
                                !.bind.dispatched = [i \in 1..Len(follow) |-> follow[i].event]]
        /\ lastHandle' = NoHandle
        /\ UNCHANGED nonTaskVars

\* the uuid of the request CreateReleaseAllocationRequestForTask builds
ReleaseUuid(allocationUuid) == allocationUuid

\* the goroutine of releaseAllocation: with a scheduler api the release
\* request of task.allocationUuid is sent
SendRelease ==
    /\ taskRoutines.release.pc = "started"
    /\ taskRoutines' = [taskRoutines EXCEPT !.release =
                            IF task.schedulerApi
                                THEN [pc |-> "sent", uuid |-> ReleaseUuid(task.allocationUuid)]
                                ELSE [pc |-> "skipped", uuid |-> ""]]
    /\ lastHandle' = NoHandle
    /\ UNCHANGED <<task, taskEvents>>
    /\ UNCHANGED nonTaskVars

NextTask ==
    \/ \E name \in TaskEvents \cup OtherEvents, argsOk \in BOOLEAN,
          uuid \in AllocationUuids \cup {""} : HandleEvent(name, argsOk, uuid)
    \/ DispatchedEvent
    \/ setAllocated
    \/ \E bindOk \in BOOLEAN : BindPod(bindOk)
    \/ SendRelease

(***************************************************************************)
(* Cross-queue preemption over a scheduling pass: DoPreemption lets the     *)
(* scheduler go through the asks of the under-utilised queues, and          *)
(* crossQueuePreemptionAllocate is called for one candidate after another   *)
(* on the same queues, nodes and allocations; no release is confirmed in    *)
(* between.                                                                 *)
(***************************************************************************)
\* calls made after the first one at most
MaxFurtherCalls == 1

IdleAgain ==
    /\ releasedBefore = {}
    /\ preemptCalls = 0

\* the next call of crossQueuePreemptionAllocate, for another candidate
NextCandidate(queue, resource) ==
    /\ preemptRun.pc = "done"
    /\ preemptCalls < MaxFurtherCalls
    /\ candidate' = [candidate EXCEPT !.queue = queue, !.resource = resource]
    /\ preemptRun' = NoRun
    /\ preemptResult' = NoResult
    /\ preemptBefore' = [queues |-> preemptQueues, nodes |-> preemptNodes]
    /\ releasedBefore' = releasedBefore \cup
                             {preemptResult.victims[i] : i \in 1..Len(preemptResult.victims)}
    /\ preemptCalls' = preemptCalls + 1
    /\ UNCHANGED <<preemptQueues, preemptNodes, nodeAllocations>>
    /\ UNCHANGED nonAgainVars

NextPreemptAgain ==
    \/ NextPreempt
    \/ \E queue \in CandidateQueues, resource \in AskResources : NextCandidate(queue, resource)

IdleMore ==
    /\ InitPending
    /\ InitTask
    /\ IdleAgain

IdleExtra ==
    /\ IdleProvided
    /\ IdleSort
    /\ InitConfig
    /\ InitLocks
    /\ InitCscLock
    /\ IdleHeadroom
    /\ IdleMore

(***************************************************************************)
(* Specifications                                                          *)
(***************************************************************************)
InitSpecAsk ==
    /\ IdleExtra
    /\ InitAsk
    /\ IdleQueue
    /\ InitCluster
    /\ IdlePreempt
    /\ IdlePlace
SpecAsk == InitSpecAsk /\ [][NextAsk]_vars

InitSpecQueue ==
    /\ IdleExtra
    /\ InitQueue
    /\ InitAsk
    /\ InitCluster
    /\ IdlePreempt
    /\ IdlePlace
SpecQueue == InitSpecQueue /\ [][NextQueue]_vars

InitSpecCluster ==
    /\ IdleExtra
    /\ InitCluster
    /\ InitAsk
    /\ IdleQueue
    /\ IdlePreempt
    /\ IdlePlace
SpecCluster == InitSpecCluster /\ [][NextCluster]_vars

SpecClusterFair == InitSpecCluster /\ [][NextCluster]_vars /\ ManagerFairness

SpecRequests == InitSpecCluster /\ [][NextRequests]_vars

InitSpecPreempt ==
    /\ IdleExtra
    /\ InitPreempt
    /\ InitAsk
    /\ IdleQueue
    /\ InitCluster
    /\ IdlePlace
SpecPreempt == InitSpecPreempt /\ [][NextPreempt]_vars

InitSpecPlace ==
    /\ IdleExtra
    /\ InitPlace
    /\ InitAsk
    /\ IdleQueue
    /\ InitCluster
    /\ IdlePreempt
SpecPlace == InitSpecPlace /\ [][NextPlace]_vars

InitSpecProvided ==
    /\ InitProvided
    /\ InitAsk
    /\ IdleQueue
    /\ InitCluster
    /\ IdlePreempt
    /\ IdleSort
    /\ InitConfig
    /\ InitLocks
    /\ InitCscLock
    /\ IdleHeadroom
    /\ IdleMore
SpecProvided == InitSpecProvided /\ [][NextProvided]_vars

InitSpecSort ==
    /\ InitSort
    /\ InitAsk
    /\ IdleQueue
    /\ InitCluster
    /\ IdlePreempt
    /\ IdlePlace
    /\ IdleProvided
    /\ InitConfig
    /\ InitLocks
    /\ InitCscLock
    /\ IdleHeadroom
    /\ IdleMore
SpecSort == InitSpecSort /\ [][NextSort]_vars

InitSpecConfig ==
    /\ InitConfig
    /\ InitAsk
    /\ IdleQueue
    /\ InitCluster
    /\ IdlePreempt
    /\ IdlePlace
    /\ IdleProvided
    /\ IdleSort
    /\ InitLocks
    /\ InitCscLock
    /\ IdleHeadroom
    /\ IdleMore
SpecConfig == InitSpecConfig /\ [][NextConfig]_vars

InitSpecLocks ==
    /\ InitLocks
    /\ InitAsk
    /\ IdleQueue
    /\ InitCluster
    /\ IdlePreempt
    /\ IdlePlace
    /\ IdleProvided
    /\ IdleSort
    /\ InitConfig
    /\ InitCscLock
    /\ IdleHeadroom
    /\ IdleMore
SpecLocks == InitSpecLocks /\ [][NextLocks]_vars

InitSpecCscLock ==
    /\ InitCscLock
    /\ InitAsk
    /\ IdleQueue
    /\ InitCluster
    /\ IdlePreempt
    /\ IdlePlace
    /\ IdleProvided
    /\ IdleSort
    /\ InitConfig
    /\ InitLocks
    /\ IdleHeadroom
    /\ IdleMore
SpecCscLock == InitSpecCscLock /\ [][NextCscLock]_vars

InitSpecHeadroom ==
    /\ InitHeadroom
    /\ InitAsk
    /\ IdleQueue
    /\ InitCluster
    /\ IdlePlace
    /\ IdleProvided
    /\ IdleSort
    /\ InitConfig
    /\ InitLocks
    /\ InitCscLock
    /\ IdleMore
SpecHeadroom == InitSpecHeadroom /\ [][NextHeadroom]_vars

InitSpecPending ==
    /\ InitPending
    /\ InitAsk
    /\ IdleQueue
    /\ InitCluster
    /\ IdlePreempt
    /\ IdlePlace
    /\ IdleProvided
    /\ IdleSort
    /\ InitConfig
    /\ InitLocks
    /\ InitCscLock
    /\ IdleHeadroom
    /\ InitTask
    /\ IdleAgain
SpecPending == InitSpecPending /\ [][NextPending]_vars

InitSpecTask ==
    /\ InitTask
    /\ InitAsk
    /\ IdleQueue
    /\ InitCluster
    /\ IdlePreempt
    /\ IdlePlace
    /\ IdleProvided
    /\ IdleSort
    /\ InitConfig
    /\ InitLocks
    /\ InitCscLock
    /\ IdleHeadroom
    /\ InitPending
    /\ IdleAgain
SpecTask == InitSpecTask /\ [][NextTask]_vars

InitSpecPreemptAgain ==
    /\ InitSpecPreempt
    /\ ~candidate.ctxNil
SpecPreemptAgain == InitSpecPreemptAgain /\ [][NextPreemptAgain]_vars

InitSpecRemove ==
    /\ IdleExtra
    /\ InitRemove
    /\ InitAsk
    /\ IdleQueue
    /\ IdlePreempt
    /\ IdlePlace
SpecRemove == InitSpecRemove /\ [][NextRemove]_vars

SpecTeardown == InitSpecRemove /\ [][NextTeardown]_vars

(***************************************************************************)
(* Claims about SchedulingAllocationAsk (checked under SpecAsk)            *)
(***************************************************************************)
\* the exact (unbounded integer) sum a + d is >= 0
ExactSumNonNeg(a, d) ==
    IF a >= 0 /\ d >= 0 THEN TRUE
    ELSE IF a < 0 /\ d < 0 THEN FALSE
    ELSE a + d >= 0

\* r is the exact sum a + d (false when the exact sum is no int32)
ExactSumIs(a, d, r) ==
    IF (a >= 0 /\ d >= 0 /\ d > MaxInt32 - a) \/ (a < 0 /\ d < 0 /\ d < MinInt32 - a)
        THEN FALSE
        ELSE r = a + d

C2_PendingRepeatNonNegative ==
    askCtor # "none" => PendingRepeatAsk >= 0

(***************************************************************************)
(* Claims about the queue tree (checked under SpecQueue)                   *)
(***************************************************************************)
\* the conditions under which RemoveQueue may succeed, in the state the call
\* found (managed, status and applications are not changed by the call)
RemovableBefore(q) ==
    /\ lastRemove.pre[q] = {}
    /\ applications[q] = {}
    /\ ~(managed[q] /\ status[q] = "Running")

\* C3: SchedulingQueue.RemoveQueue returns true only for a queue without child
\* queues, without applications and not both managed and Running; in every
\* other case it returns false and the queue tree is as it was before the call.
C3_RemoveQueueContract ==
    lastRemove.done =>
        /\ lastRemove.ret = "true" => RemovableBefore(lastRemove.queue)
        /\ ~RemovableBefore(lastRemove.queue) => lastRemove.ret = "false"
        /\ lastRemove.ret = "false" =>
              /\ childrenQueues = lastRemove.pre
              /\ \A q \in QueuePaths : Linked(q, lastRemove.pre) <=> InMirror(q)

\* RemoveQueue returned true for a Draining managed queue below the root
C3_Witness ==
    /\ lastRemove.done
    /\ lastRemove.ret = "true"
    /\ lastRemove.queue # Root
    /\ managed[lastRemove.queue]

\* C4 as stated: after RemoveQueue returned true for a non-root queue the
\* queue is no entry of its parent's children map any more and a walk from
\* the root does not reach it.
C4_RemovedFromParent ==
    (lastRemove.done /\ lastRemove.ret = "true" /\ lastRemove.queue # Root) =>
        /\ LeafName(lastRemove.queue) \notin childrenQueues[Parent(lastRemove.queue)]
        /\ ~InMirror(lastRemove.queue)

\* C5 as stated: RemoveQueue called on the root, in whatever state the root
\* is, returns false: it neither removes the root nor fails on the nil parent.
C5_RootRemoveQueueSafe ==
    (lastRemove.done /\ lastRemove.queue = Root) =>
        /\ lastRemove.ret = "false"
        /\ ~panicked

\* C6 as stated: no cleanQueues pass removes a queue whose managed flag is
\* true, whatever its status.
C6_AsStated ==
    \A r \in lastClean : r.removed => ~r.managed

\* C6 amended: cleanQueues tries to remove only queues that are Draining or
\* unmanaged, so a managed queue is never removed while it is Running: every
\* managed Running queue stays in the cache tree and in the mirror. (A managed
\* queue that is Draining and empty is removed.)
C6_ManagedRunningKept ==
    /\ \A r \in lastClean : r.status = "Draining" \/ ~r.managed
    /\ \A r \in lastClean : r.removed => ~(r.managed /\ r.status = "Running")
    /\ \A q \in QueuePaths :
          (managed[q] /\ status[q] = "Running") => (InCache(q) /\ InMirror(q))

\* one pass removed a managed Draining queue and kept a managed Running one
C6_Witness ==
    /\ \E r \in lastClean : r.removed /\ r.managed /\ r.status = "Draining"
    /\ \E q \in QueuePaths \ {Root} :
          managed[q] /\ status[q] = "Running" /\ applications[q] = {} /\ InCache(q)


\* ---- partition teardown and the cluster scheduling context ----

ManagerInLoop(c) == runPc[c] \in {"sleep", "clean"}
ManagerRunning(c) == runPc[c] \notin {"none", "exited"}

\* C7: once Stop() has been called on a partition's manager, the manager
\* sees the flag at its next tick: the tick that finishes cleanQueues with the
\* stop requested leaves the loop and goes on to remove()
C7_StopObservedAtNextTick ==
    [][\A c \in Contexts :
          (stopRequested[c] /\ runPc[c] = "clean" /\ runPc'[c] # "clean")
              => runPc'[c] = "remove"]_vars

\* the same under fair scheduling of the manager goroutines: a manager whose
\* stop was requested eventually leaves its loop
ManagerEventuallyExits ==
    \A c \in Contexts : (stopRequested[c] /\ ManagerInLoop(c)) ~> ~ManagerInLoop(c)

RemoveRank(step) ==
    CASE step = "queues" -> 1
      [] step = "application" -> 2
      [] step = "node" -> 3
      [] step = "cache" -> 4
      [] OTHER -> 5

LastRank(L) == IF L = << >> THEN 0 ELSE RemoveRank(L[Len(L)])

C10_OneManagerPerPartition ==
    \A n \in PartitionNames :
        Cardinality({c \in Contexts : ctxName[c] = n /\ ManagerRunning(c)}) <= 1


\* ---- queue cleanup, second pass ----

\* the cache tree and the mirror after one pass of cleanQueues from the root
CleanPass(cc, mirror) ==
    CleanQueuesFrom(Root, [cache |-> cc, mirror |-> mirror, log |-> {}, panic |-> FALSE])

\* C11: cleanQueues run twice in a row leaves the cache tree and the mirror
\* as one run leaves them, and removeChildQueue for a name that is not a key
\* of the children map changes nothing
C11_CleanupIdempotent ==
    /\ LET once == CleanPass(cacheChildren, childrenQueues)
           twice == CleanPass(once.cache, once.mirror)
       IN  ~once.panic =>
               /\ ~twice.panic
               /\ twice.cache = once.cache
               /\ twice.mirror = once.mirror
    /\ \A p \in QueuePaths, q \in QueuePaths :
           /\ q \notin childrenQueues[p] =>
                  removeChildQueue(childrenQueues, p, q) = childrenQueues
           /\ LeafName(q) \notin childrenQueues[p] =>
                  removeChildQueue(childrenQueues, p, LeafName(q)) = childrenQueues

\* a pass has just removed a queue from the cache tree, and a queue is absent
\* from a children map of the mirror
C11_Witness ==
    /\ \E r \in lastClean : r.removed
    /\ \E q \in QueuePaths \ {Root} : ~InCache(q)
    /\ \E p \in QueuePaths, q \in QueuePaths : LeafName(q) \notin childrenQueues[p]


\* ---- application requests to the cluster scheduling context ----

\* C12: AddSchedulingApplication and RemoveSchedulingApplication for a
\* partition name that is not in the partition map return an error and leave
\* the partition map and the applications of every partition as they were; a
\* request for a known partition goes to that partition, also when it
\* follows a rejected one
C12_UnknownPartitionRejected ==
    lastReq.done =>
        IF lastReq.partitions[lastReq.name] = 0
            THEN /\ lastReq.err = "unknown"
                 /\ partitions = lastReq.partitions
                 /\ schedApps = lastReq.schedApps
            ELSE LET c == lastReq.partitions[lastReq.name]
                     had == lastReq.app \in lastReq.schedApps[c]
                 IN  /\ lastReq.err # "unknown"
                     /\ partitions = lastReq.partitions
                     /\ \A d \in Contexts \ {c} : schedApps[d] = lastReq.schedApps[d]
                     /\ lastReq.op = "add" =>
                            /\ lastReq.err = (IF had THEN "partition" ELSE "none")
                            /\ schedApps[c] = lastReq.schedApps[c] \cup {lastReq.app}
                     /\ lastReq.op = "remove" =>
                            /\ lastReq.err = (IF had THEN "none" ELSE "partition")
                            /\ schedApps[c] = lastReq.schedApps[c] \ {lastReq.app}

\* a request for a known partition accepted right after a request rejected
\* for an unknown partition, while another partition holds an application
C12_Witness ==
    /\ lastReq.done /\ lastReq.afterUnknown /\ lastReq.err = "none"
    /\ \E c \in Contexts : c # partitions[lastReq.name] /\ schedApps[c] # {}


\* ---- cross-queue preemption ----

\* the summed resource of a set of allocations
RECURSIVE SumOfAllocations(_)
SumOfAllocations(ids) ==
    IF ids = {}
        THEN Zero
        ELSE LET a == CHOOSE a \in ids : TRUE
             IN  ResAdd(nodeAllocations[a].resource, SumOfAllocations(ids \ {a}))

Victims == {preemptResult.victims[i] : i \in 1..Len(preemptResult.victims)}
VictimsOf(q) == {a \in Victims : nodeAllocations[a].queue = q}
Reaches(sum, goal) == \A k \in ResTypes : sum[k] >= goal[k]
ToPreemptBefore(n) ==
    LET node == preemptBefore.nodes[n]
    IN  [k \in ResTypes |->
            LET d == node.allocating[k] + candidate.resource[k]
                        - node.preempting[k] - node.available[k]
            IN  IF d > 0 THEN d ELSE 0]

\* C13: when crossQueuePreemptionAllocate returns nil no node and no queue
\* has changed and no release is emitted; it returns nil when the partition
\* context is nil or the preemptor's leaf queue is unknown
C13_NoPartialPreemption ==
    preemptResult.done =>
        /\ (candidate.ctxNil \/ candidate.queue \notin LeafQueues) => preemptResult.nil
        /\ preemptResult.nil =>
               /\ preemptNodes = preemptBefore.nodes
               /\ preemptQueues = preemptBefore.queues
               /\ preemptResult.releases = {}

\* nil is returned after victims were selected on a node that did not
\* release enough
C13_Witness ==
    /\ preemptResult.done /\ preemptResult.nil
    /\ ~candidate.ctxNil /\ candidate.queue \in LeafQueues
    /\ preemptRun.selected # {}

\* C14: with headroom shortages to cover, an allocation is in the release set
\* only if crediting its resource made the shortage of some queue of the map
\* smaller
C14_VictimsReduceShortage ==
    (preemptResult.done /\ ~preemptResult.nil /\ preemptRun.shortagesAtStart # NoShortage) =>
        \A a \in Victims : a \notin preemptRun.idle

\* C15: every victim's own resource, taken from the preemptable resource of
\* its queue, makes that preemptable resource smaller
C15_VictimReducesPreemptable ==
    (preemptResult.done /\ ~preemptResult.nil) =>
        \A a \in Victims :
            LET preemptable == preemptBefore.queues[nodeAllocations[a].queue].preemptable
            IN  StrictlyGreaterThan(preemptable,
                   SubEliminateNegative(preemptable, nodeAllocations[a].resource))

C17_ProposalAccounting ==
    (preemptResult.done /\ ~preemptResult.nil) =>
        LET n == preemptResult.node
            before == preemptBefore
        IN  /\ Cardinality(preemptResult.releases) = Len(preemptResult.victims)
            /\ \A a \in Victims :
                   /\ nodeAllocations[a].node = n
                   /\ [uuid |-> a, applicationId |-> ApplicationIdOf(a), node |-> n,
                       terminationType |-> "PREEMPTED_BY_SCHEDULER"] \in preemptResult.releases
            /\ preemptNodes[n].preempting =
                   ResAdd(before.nodes[n].preempting, SumOfAllocations(Victims))
            /\ \A q \in LeafQueues :
                   /\ preemptQueues[q].markedPreempted =
                          ResAdd(before.queues[q].markedPreempted, SumOfAllocations(VictimsOf(q)))
                   /\ preemptQueues[q].preemptable =
                          SubEliminateNegative(before.queues[q].preemptable,
                                               SumOfAllocations(VictimsOf(q)))
            /\ preemptQueues[candidate.queue].allocating =
                   ResAdd(before.queues[candidate.queue].allocating, candidate.resource)
            /\ preemptNodes[n].allocating =
                   ResAdd(before.nodes[n].allocating, candidate.resource)


\* ---- placement: the fixed rule ----

\* the value starts with "root."
QualifiedRootDot(queue) == HasPrefix(queue, RootQueue \o DOT)
\* the parent rule's path, made to start with "root."
ParentPathQualified ==
    IF QualifiedRootDot(ruleConf.parentResult.path)
        THEN ruleConf.parentResult.path
        ELSE RootQueue \o DOT \o ruleConf.parentResult.path
\* the queue path the rule stands for
ResolvedPath ==
    IF QualifiedRootDot(fixedRule.queue) THEN fixedRule.queue
    ELSE IF fixedRule.hasParent THEN ParentPathQualified \o DOT \o fixedRule.queue
    ELSE RootQueue \o DOT \o fixedRule.queue
ParentRuleAsked ==
    ruleConf.allowUser /\ ~QualifiedRootDot(fixedRule.queue) /\ fixedRule.hasParent
ParentRuleFailed == ParentRuleAsked /\ ruleConf.parentResult.err # "none"
ParentRuleGaveLeaf ==
    /\ ParentRuleAsked
    /\ ruleConf.parentResult.err = "none"
    /\ ruleConf.parentResult.path # NoString
    /\ ParentPathQualified \in partitionQueues.leaves
Skipped == placement.path = NoString /\ placement.err = "none" /\ ~placement.panic

\* C18: placeApplication skips exactly when the filter denies the user, or
\* the value is unqualified and the parent rule returns no path, or the
\* resolved queue does not exist and create is false; in every other case
\* without an error it returns the resolved path, root.<value> or
\* <parent path>.<value>, also for a queue that does not exist when create is
\* true; the queues of the partition stay as they are
C18_FixedRuleOutcome ==
    placement.done =>
        LET errorCase == ParentRuleFailed \/ ParentRuleGaveLeaf
            skipCase ==
                \/ ~ruleConf.allowUser
                \/ (ParentRuleAsked /\ ruleConf.parentResult.err = "none"
                        /\ ruleConf.parentResult.path = NoString)
                \/ (~errorCase /\ ~fixedRule.create
                        /\ ResolvedPath \notin partitionQueues.paths)
        IN  /\ partitionQueues = ruleConf.queues
            /\ skipCase => Skipped
            /\ (~skipCase /\ ~errorCase) =>
                   (placement.path = ResolvedPath /\ placement.err = "none" /\ ~placement.panic)

\* C19: placeApplication returns an error and no path when the parent rule
\* returns the path of a leaf queue, hands on an error of the parent rule,
\* and skips a user the filter denies without asking the parent rule
C19_ParentLeafIsError ==
    placement.done =>
        /\ ~ruleConf.allowUser => (Skipped /\ ~placement.parentCalled)
        /\ (ruleConf.allowUser /\ fixedRule.hasParent /\ ruleConf.parentResult.err # "none") =>
               (placement.err = ruleConf.parentResult.err /\ placement.path = NoString)
        /\ (ruleConf.allowUser /\ fixedRule.hasParent /\ ruleConf.parentResult.err = "none"
                /\ ruleConf.parentResult.path # NoString
                /\ ParentPathQualified \in partitionQueues.leaves) =>
               (placement.err = "parent rule returned a leaf queue"
                    /\ placement.path = NoString)

\* the parent rule gave the unqualified name of a leaf queue
C19_Witness ==
    /\ placement.done
    /\ placement.err = "parent rule returned a leaf queue"
    /\ ruleConf.parentResult.path = <<"l">>

\* C20: the rule counts its value as fully qualified exactly when the value
\* starts with "root.", and every path it returns starts with "root."
C20_QualifiedIffRootDot ==
    /\ fixedRule.state # "new" =>
           (fixedRule.qualified <=> QualifiedRootDot(fixedRule.queue))
    /\ (placement.done /\ placement.path # NoString) =>
           QualifiedRootDot(placement.path)

\* ---- placement: the provided rule ----

\* the parent rule's path as the provided rule joins it: starting with "root."
ProvidedParentQualified ==
    IF QualifiedRootDot(providedPlacement.parentPath)
        THEN providedPlacement.parentPath
        ELSE RootQueue \o DOT \o providedPlacement.parentPath
ProvidedPlaced ==
    /\ providedPlacement.done
    /\ providedPlacement.path # NoString

\* C21: for a submitted queue that does not start with "root." the provided
\* rule asks the parent rule first, when it has one and the filter allows the
\* user, and a path it returns is <parent path>.<submitted queue>, or
\* root.<submitted queue> without a parent rule; the fixed parent rule p and
\* the submitted queue q give root.p.q; for a submitted queue that starts
\* with "root." the parent rule is not asked and a path returned is the
\* submitted one
C21_ProvidedRuleJoinsParent ==
    providedPlacement.done =>
        /\ QualifiedRootDot(provided.queue) =>
               /\ ~providedPlacement.parentCalled
               /\ ProvidedPlaced => providedPlacement.path = provided.queue
               /\ (provided.allowUser
                       /\ (provided.create \/ provided.queue \in partitionQueues.paths)) =>
                      providedPlacement.path = provided.queue
        /\ (~QualifiedRootDot(provided.queue) /\ provided.hasParent) =>
               /\ provided.allowUser => providedPlacement.parentCalled
               /\ ProvidedPlaced =>
                      providedPlacement.path = ProvidedParentQualified \o DOT \o provided.queue
               /\ (provided.allowUser /\ ruleConf.allowUser /\ ~fixedRule.hasParent
                       /\ fixedRule.queue = <<"p">> /\ provided.queue = <<"q">>
                       /\ RootQueue \o DOT \o <<"p">> \o DOT \o <<"q">> \in partitionQueues.paths) =>
                      providedPlacement.path = RootQueue \o DOT \o <<"p">> \o DOT \o <<"q">>
        /\ (~QualifiedRootDot(provided.queue) /\ ~provided.hasParent /\ ProvidedPlaced) =>
               providedPlacement.path = RootQueue \o DOT \o provided.queue

\* the fixed parent rule p and the submitted queue q gave root.p.q
C21_Witness ==
    /\ providedPlacement.done
    /\ provided.hasParent
    /\ fixedRule.queue = <<"p">>
    /\ provided.queue = <<"q">>
    /\ providedPlacement.parentPath = RootQueue \o DOT \o <<"p">>
    /\ providedPlacement.path = RootQueue \o DOT \o <<"p">> \o DOT \o <<"q">>

\* ---- sorters ----

\* a queue's own fairness ratio: the dominant share of its ProposingResource
\* in its own GuaranteedResource
OwnRatio(q) == DominantShare(q.res, q.cap)
IsPermutation(s, t) ==
    /\ Len(s) = Len(t)
    /\ \E f \in [DOMAIN s -> DOMAIN t] :
           /\ \A i, j \in DOMAIN s : i # j => f[i] # f[j]
           /\ \A i \in DOMAIN s : s[i] = t[f[i]]
SortedQueues ==
    sortKind = "queues" /\ sortCall.done /\ sortCall.sortType = FairSortPolicy

\* C22: after SortQueue with FairSortPolicy the queues are in ascending order
\* of their own fairness ratio, and the slice is a permutation of the input
C22_QueuesAscendingByOwnRatio ==
    SortedQueues =>
        /\ IsPermutation(sortSlice, sortInput)
        /\ \A i, j \in DOMAIN sortSlice :
               i < j => ~RatioLess(OwnRatio(sortSlice[j]), OwnRatio(sortSlice[i]))

\* the sort call made was one that sorts: the sortType is one of the slice's kind
SortApplied ==
    /\ sortCall.done
    /\ \/ sortKind = "queues" /\ sortCall.sortType = FairSortPolicy
       \/ sortKind = "applications" /\ sortCall.sortType \in {FairSortPolicy, FifoSortPolicy}
       \/ sortKind = "nodes" /\ sortCall.sortType = MaxAvailableResources
\* two elements compare equal under the policy of the call
SortTie(l, r) ==
    /\ ~Less(sortKind, sortCall.sortType, l, r)
    /\ ~Less(sortKind, sortCall.sortType, r, l)

\* C23: after SortQueue, SortApplications or SortNodes two elements that
\* compare equal under the sort policy stand in lexicographic order of queue
\* path, application id or node id
C23_TiesInLexicographicOrder ==
    SortApplied =>
        \A i, j \in DOMAIN sortSlice :
            (i < j /\ SortTie(sortSlice[i], sortSlice[j])) =>
                sortSlice[i].id < sortSlice[j].id

\* ---- scheduler configuration ----

\* the failures of a snapshot named by the tests
NoQueues(p) == Len(p.queues) = 0
DuplicateSiblings(p) ==
    \E i, j \in DOMAIN p.queues : i # j /\ p.queues[i].name.text = p.queues[j].name.text
MaxOnRoot(p) == \E i \in DOMAIN p.queues : p.queues[i].name.text = "root" /\ p.queues[i].max
BadQueueName(p) ==
    \E i \in DOMAIN p.queues :
        \/ p.queues[i].name.len > 64
        \/ "." \in p.queues[i].name.chars
        \/ "$" \in p.queues[i].name.chars
DuplicatePartitions(snapshot) ==
    \E i, j \in DOMAIN snapshot : i # j /\ snapshot[i].name = snapshot[j].name
FailsValidation(snapshot) ==
    \/ DuplicatePartitions(snapshot)
    \/ \E i \in DOMAIN snapshot :
           \/ NoQueues(snapshot[i])
           \/ DuplicateSiblings(snapshot[i])
           \/ MaxOnRoot(snapshot[i])
           \/ BadQueueName(snapshot[i])

IsAncestor(a, q) == Len(a) < Len(q) /\ SubSeq(q, 1, Len(a)) = a

\* C25: a goroutine that holds the locks of two scheduling queues, one the
\* parent (or another ancestor) of the other, took the ancestor's lock first
C25_ParentLockedFirst ==
    \A t \in LockThreads :
        \A i, j \in DOMAIN goroutine[t].held :
            i < j => ~IsAncestor(goroutine[t].held[j], goroutine[t].held[i])

\* the goroutines whose release goroutine t waits for
WaitsFor(t) ==
    LET g == goroutine[t]
        lock == sqLock[g.next]
        readMode == \/ g.op = "cleanQueues"
                    \/ g.op = "RemoveQueue" /\ g.held = << >>
    IN  IF g.pc # "lock" THEN {}
        ELSE IF readMode THEN {lock.writer} \ {0}
        ELSE ({lock.writer} \ {0}) \cup lock.readers

\* C26: the operations on the queues never block each other for good: there
\* is no set of goroutines each of which waits for a lock that another
\* goroutine of the set holds
C26_NoDeadlock ==
    \A S \in SUBSET LockThreads :
        S # {} => \E t \in S : WaitsFor(t) \cap S = {}

\* C28: every read or write of a queue's applications or childrenQueues is
\* made by a goroutine that holds the queue's lock (the write lock for a
\* write), and so never while another goroutine holds the queue's write
\* lock to change the map
C28_MapsAccessedUnderLock ==
    \A a \in lastAccess : a.locked /\ a.writer = 0

\* ---- the lock of the cluster scheduling context ----

\* C27: every insertion into and deletion from csc.partitions is made by a
\* goroutine that holds the context's lock in write mode, so that no other
\* goroutine is reading or writing the map under the lock at that time
C27_MapWrittenUnderWriteLock ==
    \A a \in cscAccess : a.write => (a.mode = "write" /\ a.others = {})

\* ---- headroom shortages ----

\* the resource asked for is larger than the headroom of queue q in some type
ExceedsHeadroom(res, q) ==
    \E k \in ResTypes :
        res[k] > preemptQueues[q].max[k] - preemptQueues[q].allocating[k]
                     + preemptQueues[q].markedPreempted[k]
\* what is missing per type: max(0, ask - headroom)
Missing(res, q) ==
    [k \in ResTypes |->
        LET d == res[k] - (preemptQueues[q].max[k] - preemptQueues[q].allocating[k]
                               + preemptQueues[q].markedPreempted[k])
        IN  IF d > 0 THEN d ELSE 0]
\* the preemptor queue and its ancestors up to root
PathToRoot(q) == {a \in PQueues : a = q \/ a = "root"}

\* C29: the map initHeadroomShortages returns has an entry for exactly the
\* queues on the path from the preemptor to root whose headroom
\* max - allocating + markedPreempted the ask exceeds in some type, and the
\* entry is max(0, ask - headroom) per type
C29_ShortagesOfPath ==
    headroomCall.op = "initHeadroomShortages" =>
        /\ DOMAIN queueHeadroomShortages =
               {q \in PathToRoot(headroomCall.queue) :
                    ExceedsHeadroom(headroomCall.resource, q)}
        /\ \A q \in DOMAIN queueHeadroomShortages :
               queueHeadroomShortages[q] = Missing(headroomCall.resource, q)

\* the leaf and root both lack resource, each its own amount
C29_Witness ==
    /\ headroomCall.op = "initHeadroomShortages"
    /\ DOMAIN queueHeadroomShortages = {"root", "root.high"}
    /\ queueHeadroomShortages["root"] # queueHeadroomShortages["root.high"]
    /\ preemptQueues["root.high"].markedPreempted # Zero

\* the shortage of queue q in map m, Zero without an entry
ShortageIn(m, q) == IF q \in DOMAIN m THEN m[q] ELSE Zero
\* the shortage of queue q went down in the call just made
ShortageDecreased(q) ==
    /\ \A k \in ResTypes :
           ShortageIn(queueHeadroomShortages, q)[k] <= ShortageIn(headroomCall.before, q)[k]
    /\ \E k \in ResTypes :
           ShortageIn(queueHeadroomShortages, q)[k] < ShortageIn(headroomCall.before, q)[k]

\* C30: headroomShortageUpdate returns true exactly when the shortage of a
\* queue on the victim queue's chain to root went down; it returns false and
\* leaves the map as it was for an empty map and when nothing went down; no
\* shortage goes up, no entry appears, the entry of a queue off the chain
\* stays, an entry goes only when the victim's resource covers the shortage,
\* and every entry left is greater than zero in some type
C30_UpdateReducesShortages ==
    headroomCall.op = "headroomShortageUpdate" =>
        LET before == headroomCall.before
            after == queueHeadroomShortages
            chain == PathToRoot(headroomCall.queue)
        IN  /\ headroomCall.ret <=> \E q \in chain : ShortageDecreased(q)
            /\ ~headroomCall.ret => after = before
            /\ before = << >> => ~headroomCall.ret
            /\ DOMAIN after \subseteq DOMAIN before
            /\ \A q \in DOMAIN after : \A k \in ResTypes : after[q][k] <= before[q][k]
            /\ \A q \in DOMAIN before \ chain : q \in DOMAIN after /\ after[q] = before[q]
            /\ \A q \in DOMAIN before \ DOMAIN after :
                   \A k \in ResTypes : before[q][k] <= headroomCall.resource[k]
            /\ \A q \in DOMAIN after : \E k \in ResTypes : after[q][k] > 0

\* a victim on the chain took one entry out of the map and lowered another
C30_Witness ==
    /\ headroomCall.op = "headroomShortageUpdate"
    /\ headroomCall.ret
    /\ DOMAIN headroomCall.before \ DOMAIN queueHeadroomShortages # {}
    /\ \E q \in DOMAIN queueHeadroomShortages : ShortageDecreased(q)

(***************************************************************************)
(* Claims about the pending resource of the scheduling queues (checked      *)
(* under SpecPending)                                                       *)
(***************************************************************************)
\* the queue and its ancestors up to root
PendingChain(q) == {SubSeq(q, 1, i) : i \in 1..Len(q)}

DecPendingReturned == pendingDone.done /\ pendingDone.op = "DecPendingResource"

\* the update the call that returned made to queue q
ChangeOf(q) ==
    LET i == CHOOSE i \in 1..Len(pendingDone.changes) : pendingDone.changes[i].queue = q
    IN  pendingDone.changes[i]

\* C31: DecPendingResource applies no underflow guard: it sets the
\* pendingResource of the queue and of every ancestor, each once, to what it
\* was less delta in every type, so that a queue whose pendingResource was
\* below delta in a type is left negative in that type; nothing is rejected
\* and nothing is clamped to zero
C31_DecLowersUnclamped ==
    DecPendingReturned =>
        /\ {pendingDone.changes[i].queue : i \in 1..Len(pendingDone.changes)} =
               PendingChain(pendingDone.target)
        /\ Len(pendingDone.changes) = Len(pendingDone.target)
        /\ \A i \in 1..Len(pendingDone.changes) :
               \A k \in ResTypes :
                   pendingDone.changes[i].after[k] =
                       pendingDone.changes[i].before[k] - pendingDone.delta[k]

\* a DecPendingResource left its queue negative in a type
C31_Witness ==
    /\ DecPendingReturned
    /\ \E k \in ResTypes : ChangeOf(pendingDone.target).after[k] < 0

\* C31 as stated: when delta exceeds the pendingResource of the queue in a
\* type, the queue and every ancestor are left negative in that type
C31_AsStated ==
    DecPendingReturned =>
        \A k \in ResTypes :
            pendingDone.delta[k] > ChangeOf(pendingDone.target).before[k] =>
                \A q \in PendingChain(pendingDone.target) : ChangeOf(q).after[k] < 0

PendingQuiescent == \A t \in PendingThreads : pendingCaller[t].op = "idle"

RECURSIVE SumOfPending(_)
SumOfPending(queues) ==
    IF queues = {} THEN Zero
    ELSE LET c == CHOOSE c \in queues : TRUE
         IN  ResAdd(queuePending[c], SumOfPending(queues \ {c}))

\* C33: with no pending-resource operation in progress, the pendingResource
\* of every parent queue is the sum, type by type, of the pendingResource of
\* its children
C33_ParentIsSumOfChildren ==
    PendingQuiescent =>
        \A q \in QueuePaths :
            Children(q) # {} => queuePending[q] = SumOfPending(Children(q))

\* operations on both leaves have returned and left pending resource in both
C33_Witness ==
    /\ PendingQuiescent
    /\ pendingCalls = MaxPendingCalls
    /\ \A q \in PendingLeaves : queuePending[q] # Zero
    /\ pendingDone.done /\ pendingDone.op = "RemoveSchedulingApplication"
    /\ pendingDone.changes # << >>

(***************************************************************************)
(* Claims about the task of the Kubernetes shim (checked under SpecTask)    *)
(***************************************************************************)
BindRoutine == taskRoutines.bind

\* C32: for a task that entered Allocated through the TaskAllocated event
\* the goroutine of postTaskAllocated dispatches nothing while it runs and,
\* when it is done, has dispatched exactly one event: the bind event if the
\* arguments were valid and the pod was bound, the fail event if not; the
\* bind event takes a task in Allocated to Bound, the fail event to Failed
C32_OneFollowUpEvent ==
    /\ lastHandle.done /\ lastHandle.event = "TaskAllocated" /\ lastHandle.err = "none"
           => lastHandle.after = "Allocated" /\ BindRoutine.pc = "running"
    /\ BindRoutine.pc \in {"none", "running"} => BindRoutine.dispatched = << >>
    /\ BindRoutine.pc = "done" =>
           /\ Len(BindRoutine.dispatched) = 1
           /\ BindRoutine.dispatched[1] = IF BindRoutine.bound THEN "TaskBound" ELSE "TaskFail"
           /\ ~BindRoutine.argsOk => ~BindRoutine.bound
    /\ lastHandle.done /\ lastHandle.before = "Allocated" =>
           /\ lastHandle.event = "TaskBound" => lastHandle.after = "Bound"
           /\ lastHandle.event = "TaskFail" => lastHandle.after = "Failed"

\* the fail event of a bind that failed has taken the task to Failed
C32_Witness ==
    /\ BindRoutine.pc = "done"
    /\ BindRoutine.argsOk /\ ~BindRoutine.bound
    /\ lastHandle.done /\ lastHandle.event = "TaskFail"
    /\ lastHandle.before = "Allocated" /\ lastHandle.after = "Failed"
    /\ taskEvents = << >>

TerminalStates == {"Completed", "Killed", "Failed"}

NotPermitted(event, state) == event \notin TaskEvents \/ state \notin Src(event)

\* C39: an event handed to Task.handle that is not permitted in the current
\* state, which is every event in Completed, Killed and Failed, leaves the
\* state as it is and handle returns an error; an event that is permitted
\* and leads to the state the task is in returns nil
C39_TerminalStatesStay ==
    lastHandle.done =>
        /\ lastHandle.before \in TerminalStates =>
               lastHandle.after = lastHandle.before /\ lastHandle.err # "none"
        /\ NotPermitted(lastHandle.event, lastHandle.before) =>
               lastHandle.after = lastHandle.before /\ lastHandle.err # "none"
        /\ ~NotPermitted(lastHandle.event, lastHandle.before) =>
               /\ lastHandle.err = "none"
               /\ lastHandle.after = Dst(lastHandle.event)

\* a task in Failed was handed KillTask
C39_Witness ==
    /\ lastHandle.done
    /\ lastHandle.before = "Failed"
    /\ lastHandle.event = "KillTask"
    /\ task.state = "Failed"

\* C40: a release request the task sent carries the allocation uuid of the
\* task, which is not empty
C40_ReleaseCarriesUuid ==
    taskRoutines.release.pc = "sent" => taskRoutines.release.uuid # ""

(***************************************************************************)
(* Further claims about cross-queue preemption (checked under SpecPreempt)  *)
(***************************************************************************)
ProposalMade == preemptResult.done /\ ~preemptResult.nil

\* C34: the victims a proposal takes from one queue sum, in every resource
\* type, to no more than the preemptable resource the queue had when the
\* call began
C34_VictimsWithinPreemptable ==
    ProposalMade =>
        \A q \in LeafQueues :
            Reaches(preemptBefore.queues[q].preemptable, SumOfAllocations(VictimsOf(q)))

\* C35: when crossQueuePreemptionAllocate returns a proposal no headroom
\* shortage is left for the preemptor queue and its ancestors, and each of
\* them has allocating <= max + markedPreempted in every resource type
C35_NoShortageLeft ==
    ProposalMade =>
        /\ preemptRun.shortages = NoShortage
        /\ \A q \in PPath(PreemptorQueue(candidate)) :
               Reaches(ResAdd(preemptQueues[q].max, preemptQueues[q].markedPreempted),
                       preemptQueues[q].allocating)

\* C36 (checked under SpecPreemptAgain): an allocation in the release list of
\* an earlier call, its release not confirmed yet, is not among the victims
\* of a later call
C36_VictimSelectedOnce ==
    ProposalMade => Victims \cap releasedBefore = {}

\* C37 (checked under SpecQueue): after a cleanQueues pass that tried a
\* removal, a queue path is in the scheduling mirror exactly when it is in
\* the cache tree
C37_MirrorAgreesWithCache ==
    (lastClean # {} /\ ~panicked) =>
        \A q \in QueuePaths : InMirror(q) <=> InCache(q)

====
